---- MODULE Spec2Model ----
(***************************************************************************)
(* The analysis-request pipeline of the PhishGuard browser extension:      *)
(* the background script's onMessage listener and its analyzeWithRetry     *)
(* loop (src/background.js), with the response normalisation it calls.     *)
(*                                                                         *)
(* Text is modelled as a sequence of characters; a character is a record   *)
(* (one JSON token, or one character of non-JSON text, per position).      *)
(* A JavaScript string value is a sequence of TLA+ strings, one per        *)
(* character group; "" is the empty sequence.                              *)
(***************************************************************************)
EXTENDS Integers, Sequences, FiniteSets, TLC

----------------------------------------------------------------------------
(* Program constants                                                       *)

\* analyzeWithRetry(retryCount = 3, delay = 1000)
retryCount == 3
delay == 1000
\* textData.substring(0, 100)
SnippetLen == 100

(* Bounds of the model                                                     *)

\* length of the longest non-JSON body the server sends
LongLen == 120

\* the fetches one call is followed for
MaxCalls == 4

----------------------------------------------------------------------------
(* JavaScript values                                                       *)

Undefined == [k |-> "undefined"]
Null      == [k |-> "null"]
Bool(b)   == [k |-> "boolean", b |-> b]
Num(n)    == [k |-> "number", n |-> n]
Str(s)    == [k |-> "string", s |-> s]
Obj(o)    == [k |-> "object", o |-> o]
Arr(a)    == [k |-> "array", a |-> a]

\* ToBoolean: undefined, null, false, 0 and "" are falsy
Truthy(v) ==
  CASE v.k = "undefined" -> FALSE
    [] v.k = "null"      -> FALSE
    [] v.k = "boolean"   -> v.b
    [] v.k = "number"    -> v.n # 0
    [] v.k = "string"    -> v.s # <<>>
    [] OTHER             -> TRUE

\* v.name throws a TypeError when v is undefined or null
AccessThrows(v) == v.k \in {"undefined", "null"}

\* v.name, for a v on which property access does not throw
Get(v, name) ==
  IF v.k = "object" /\ <<name>> \in DOMAIN v.o THEN v.o[<<name>>] ELSE Undefined

\* a || b
OrElse(a, b) == IF Truthy(a) THEN a ELSE b

----------------------------------------------------------------------------
(* Characters of a response body                                           *)

P(c) == [t |-> "punct",   v |-> <<c>>, n |-> 0]
S(s) == [t |-> "string",  v |-> s,     n |-> 0]
N(n) == [t |-> "number",  v |-> <<>>,  n |-> n]
L(w) == [t |-> "literal", v |-> <<w>>, n |-> 0]
X(i) == [t |-> "text",    v |-> <<"x">>, n |-> i]
EndOfText == [t |-> "eof", v |-> <<>>, n |-> 0]

CharAt(text, i) == IF i \in 1..Len(text) THEN text[i] ELSE EndOfText

----------------------------------------------------------------------------
(* JSON.parse                                                              *)

ParseFail == [ok |-> FALSE, val |-> Undefined, next |-> 0]
Parsed(v, i) == [ok |-> TRUE, val |-> v, next |-> i]

RECURSIVE ParseValue(_, _)
RECURSIVE ParseMembers(_, _, _)
RECURSIVE ParseElements(_, _, _)

\* members of an object after "{" or ",": "key" : value, then "," or "}";
\* a repeated key keeps the last value
ParseMembers(text, i, acc) ==
  LET key == CharAt(text, i) IN
  IF key.t # "string" \/ CharAt(text, i + 1) # P(":") THEN ParseFail
  ELSE LET r == ParseValue(text, i + 2) IN
       IF ~r.ok THEN ParseFail
       ELSE LET acc2 == [f \in DOMAIN acc \cup {key.v} |->
                           IF f = key.v THEN r.val ELSE acc[f]]
                sep  == CharAt(text, r.next)
            IN  IF sep = P("}") THEN Parsed(Obj(acc2), r.next + 1)
                ELSE IF sep = P(",") THEN ParseMembers(text, r.next + 1, acc2)
                ELSE ParseFail

\* elements of an array after "[" or ",": value, then "," or "]"
ParseElements(text, i, acc) ==
  LET r == ParseValue(text, i) IN
  IF ~r.ok THEN ParseFail
  ELSE LET acc2 == Append(acc, r.val)
           sep  == CharAt(text, r.next)
       IN  IF sep = P("]") THEN Parsed(Arr(acc2), r.next + 1)
           ELSE IF sep = P(",") THEN ParseElements(text, r.next + 1, acc2)
           ELSE ParseFail

ParseValue(text, i) ==
  LET c == CharAt(text, i) IN
  CASE c.t = "string"  -> Parsed(Str(c.v), i + 1)
    [] c.t = "number"  -> Parsed(Num(c.n), i + 1)
    [] c = L("true")   -> Parsed(Bool(TRUE), i + 1)
    [] c = L("false")  -> Parsed(Bool(FALSE), i + 1)
    [] c = L("null")   -> Parsed(Null, i + 1)
    [] c = P("{")      -> IF CharAt(text, i + 1) = P("}")
                          THEN Parsed(Obj(<<>>), i + 2)
                          ELSE ParseMembers(text, i + 1, <<>>)
    [] c = P("[")      -> IF CharAt(text, i + 1) = P("]")
                          THEN Parsed(Arr(<<>>), i + 2)
                          ELSE ParseElements(text, i + 1, <<>>)
    [] OTHER           -> ParseFail

\* JSON.parse(textData): a value, or a SyntaxError when the text is not exactly
\* one JSON value
JSONparse(text) ==
  LET r == ParseValue(text, 1) IN
  IF r.ok /\ r.next = Len(text) + 1 THEN [ok |-> TRUE, val |-> r.val]
  ELSE [ok |-> FALSE, val |-> Undefined]

----------------------------------------------------------------------------
(* String operations                                                       *)

Whitespace == {" ", "\n"}

RECURSIVE TrimStart(_)
TrimStart(s) ==
  IF s # <<>> /\ Head(s) \in Whitespace THEN TrimStart(Tail(s)) ELSE s

RECURSIVE TrimEnd(_)
TrimEnd(s) ==
  IF s # <<>> /\ s[Len(s)] \in Whitespace
  THEN TrimEnd(SubSeq(s, 1, Len(s) - 1)) ELSE s

\* String.prototype.trim
Trim(s) == TrimEnd(TrimStart(s))

UpperOf(g) ==
  CASE g = "high"    -> "HIGH"
    [] g = "medium"  -> "MEDIUM"
    [] g = "low"     -> "LOW"
    [] g = "unknown" -> "UNKNOWN"
    [] OTHER         -> g

\* String.prototype.toUpperCase
ToUpperCase(s) == [i \in DOMAIN s |-> UpperOf(s[i])]

\* String.prototype.includes, for a needle that is one character group
Includes(s, needle) == \E i \in DOMAIN s : s[i] = needle

\* `${v}` for the values a template literal receives here
Interpolate(v) ==
  CASE v.k = "string" -> v.s
    [] v.k = "number" -> <<ToString(v.n)>>
    [] OTHER          -> <<v.k>>

\* (x * 100).toFixed(1) + "%": a number is held in hundredths, so x * 100 is
\* the held integer; anything that is not a number gives NaN
Percent(v) ==
  IF v.k = "number" THEN <<ToString(v.n), ".0%">> ELSE <<"NaN%">>

\* v > 0
Positive(v) == (v.k = "number" /\ v.n > 0) \/ (v.k = "boolean" /\ v.b)

AILabel == "AI Analysis:"

\* index of the first character group at or after i that satisfies the
\* lookahead (?=\n<delimiter>|$): the end of the text when there is none
RECURSIVE LazyEnd(_, _, _)
LazyEnd(s, i, delims) ==
  IF i > Len(s) THEN i
  ELSE IF s[i] = "\n" /\ i + 1 <= Len(s) /\ s[i + 1] \in delims THEN i
  ELSE LazyEnd(s, i + 1, delims)

RECURSIVE SkipSpace(_, _)
SkipSpace(s, i) ==
  IF i <= Len(s) /\ s[i] \in Whitespace THEN SkipSpace(s, i + 1) ELSE i

\* resultText.match(/<label>\s*(.*?)(?=\n<delims>|$)/s): group 1 of the match
\* at the first label, or no match
MatchAI(s, delims) ==
  IF ~Includes(s, AILabel) THEN [matched |-> FALSE, group |-> <<>>]
  ELSE LET at    == CHOOSE i \in DOMAIN s :
                       s[i] = AILabel /\ \A j \in 1..(i - 1) : s[j] # AILabel
           from  == SkipSpace(s, at + 1)
           until == LazyEnd(s, from, delims)
       IN  [matched |-> TRUE, group |-> SubSeq(s, from, until - 1)]

----------------------------------------------------------------------------
(* extractAIAnalysis(responseData)                                         *)

Returns(v) == [threw |-> FALSE, val |-> v]
Throws     == [threw |-> TRUE, val |-> <<>>]

BlockedMessage ==
  <<"AI analysis was blocked by safety filters. This may indicate high-risk content.">>
NotAvailableMessage ==
  <<"AI analysis not available - using rule-based detection only">>

\* lines 14-39: the branch taken when features.has_ai_analysis is set
AIFeaturesBranch(responseData) ==
  LET f          == Get(responseData, "features")
      confidence == OrElse(Get(f, "ai_confidence"), Num(0))
      riskLevel  == OrElse(Get(f, "ai_risk_assessment"), Str(<<"unknown">>))
      resultText == OrElse(Get(responseData, "result"), Str(<<>>))
  IN  IF riskLevel.k # "string" \/ resultText.k # "string" THEN Throws
      ELSE LET head == <<"AI Risk Assessment: ">> \o ToUpperCase(riskLevel.s)
                         \o <<" (">> \o Percent(confidence)
                         \o <<" confidence)", "\n", "\n">>
               urls == IF Positive(Get(f, "ai_detected_urls"))
                       THEN <<"AI detected ">>
                              \o Interpolate(Get(f, "ai_detected_urls"))
                              \o <<" suspicious URL(s)", "\n">>
                       ELSE <<>>
               urgent == IF Positive(Get(f, "ai_detected_urgent_phrases"))
                         THEN <<"AI detected ">>
                                \o Interpolate(Get(f, "ai_detected_urgent_phrases"))
                                \o <<" urgent phrase(s)", "\n">>
                         ELSE <<>>
               creds == IF Positive(Get(f, "ai_detected_credential_phrases"))
                        THEN <<"AI detected ">>
                               \o Interpolate(Get(f, "ai_detected_credential_phrases"))
                               \o <<" credential request(s)", "\n">>
                        ELSE <<>>
               m == MatchAI(resultText.s, {"[clipboard]"})
               tail == IF m.matched /\ Trim(m.group) # <<>>
                       THEN <<"\n">> \o Trim(m.group) ELSE <<>>
           IN  Returns(head \o urls \o urgent \o creds \o tail)

\* lines 41-53: the result text's labelled section, the blocked message, or
\* the not-available message
AIResultBranch(responseData) ==
  LET resultText == OrElse(Get(responseData, "result"), Str(<<>>)) IN
  IF resultText.k # "string" THEN Throws
  ELSE LET m == MatchAI(resultText.s, {"[clipboard]", "[check]", "[siren]"}) IN
       IF m.matched /\ Trim(m.group) # <<>> THEN Returns(Trim(m.group))
       ELSE IF Includes(resultText.s, "AI analysis was blocked")
               \/ Includes(resultText.s, "safety filter")
            THEN Returns(BlockedMessage)
       ELSE Returns(NotAvailableMessage)

\* mutation: the features are not consulted
extractAIAnalysis_NoFeatures(responseData) ==
  IF AccessThrows(responseData) THEN Throws
  ELSE LET da == Get(responseData, "detailed_analysis")
       IN  IF Truthy(da) /\ da.k # "string" THEN Throws
           ELSE IF Truthy(da) /\ Trim(da.s) # <<>> THEN Returns(Trim(da.s))
           ELSE AIResultBranch(responseData)

\* lines 7-54
extractAIAnalysis(responseData) ==
  IF AccessThrows(responseData) THEN Throws
  ELSE LET da == Get(responseData, "detailed_analysis")
           f  == Get(responseData, "features")
       IN  IF Truthy(da) /\ da.k # "string" THEN Throws
           ELSE IF Truthy(da) /\ Trim(da.s) # <<>> THEN Returns(Trim(da.s))
           ELSE IF Truthy(f) /\ Truthy(Get(f, "has_ai_analysis"))
                THEN AIFeaturesBranch(responseData)
           ELSE AIResultBranch(responseData)

----------------------------------------------------------------------------
(* extractTechnicalAnalysis(responseData)                                  *)

\* a bulleted line per entry of a list of labels
RECURSIVE Bullets(_)
Bullets(labels) ==
  IF labels = <<>> THEN <<>>
  ELSE <<"* ", Head(labels), "\n">> \o Bullets(Tail(labels))

\* the labels of the flags of `table` (a sequence of <<flag, label>>) that are
\* truthy in the features object f, in the table's order
\* mutation: every feature of the table is listed, flagged or not
Flagged_All(f, table) == [i \in DOMAIN table |-> table[i][2]]

RECURSIVE Flagged(_, _)
Flagged(f, table) ==
  IF table = <<>> THEN <<>>
  ELSE (IF Truthy(Get(f, Head(table)[1])) THEN <<Head(table)[2]>> ELSE <<>>)
         \o Flagged(f, Tail(table))

AIFeatureTable ==
  << <<"has_urgency", "Urgent/threatening language">>,
     <<"has_suspicious_links", "Suspicious URLs">>,
     <<"has_credential_request", "Credential requests">> >>

RuleFeatureTable ==
  << <<"has_typosquatting", "Domain typosquatting">>,
     <<"has_sender_spoofing", "Sender spoofing">>,
     <<"has_homoglyph_chars", "Homoglyph characters">>,
     <<"has_poor_formatting", "Poor formatting">>,
     <<"has_suspicious_sender", "Suspicious sender patterns">> >>

\* a titled block of `title`, the bulleted labels and a blank line, or nothing
\* when there are no labels
Block(title, labels) ==
  IF labels = <<>> THEN <<>> ELSE <<title, "\n">> \o Bullets(labels) \o <<"\n">>

\* lines 61-79
TechAIPart(f) ==
  IF Truthy(f) /\ Truthy(Get(f, "has_ai_analysis"))
  THEN IF Get(f, "ai_risk_assessment").k # "string" THEN Throws
       ELSE Returns(<<"AI-Powered Technical Analysis:", "\n", "* Confidence Score: ">>
                      \o Percent(Get(f, "ai_confidence"))
                      \o <<"\n", "* Risk Assessment: ">>
                      \o ToUpperCase(Get(f, "ai_risk_assessment").s)
                      \o <<"\n", "\n">>
                      \o Block("AI-Detected Features:", Flagged(f, AIFeatureTable)))
  ELSE Returns(<<>>)

\* lines 82-97
TechRulePart(f) ==
  IF Truthy(f) THEN Block("Rule-Based Detection:", Flagged(f, RuleFeatureTable))
  ELSE <<>>

\* the entries of an array as labels
RECURSIVE Labels(_)
Labels(a) == IF a = <<>> THEN <<>> ELSE Interpolate(Head(a)) \o Labels(Tail(a))

\* elements.<name>: whether list && list.length > 0 holds and whether the
\* .slice(..).forEach that follows exists (it does on an array only)
NonEmptyList(v) == (v.k = "array" /\ v.a # <<>>) \/ (v.k = "string" /\ v.s # <<>>)

\* one block of lines 103-134: at most three entries, then the count of the rest
ElementBlock(title, v) ==
  IF ~NonEmptyList(v) THEN Returns(<<>>)
  ELSE IF v.k # "array" THEN Throws
  ELSE LET shown == SubSeq(v.a, 1, IF Len(v.a) > 3 THEN 3 ELSE Len(v.a))
           more  == IF Len(v.a) > 3
                    THEN <<"* ... and ", ToString(Len(v.a) - 3), " more", "\n">>
                    ELSE <<>>
       IN  Returns(<<title, "\n">> \o Bullets(Labels(shown)) \o more \o <<"\n">>)

\* lines 136-142: every flag is listed
FlagBlock(title, v) ==
  IF ~NonEmptyList(v) THEN Returns(<<>>)
  ELSE IF v.k # "array" THEN Throws
  ELSE Returns(<<title, "\n">> \o Bullets(Labels(v.a)) \o <<"\n">>)

\* lines 100-143
TechElementsPart(elements) ==
  IF ~Truthy(elements) THEN Returns(<<>>)
  ELSE LET urls   == ElementBlock("Suspicious URLs (AI Detected):", Get(elements, "urls"))
           urgent == ElementBlock("Urgent Language (AI Detected):",
                                  Get(elements, "urgent_phrases"))
           creds  == ElementBlock("Credential Requests (AI Detected):",
                                  Get(elements, "credential_phrases"))
           flags  == FlagBlock("AI System Flags:", Get(elements, "ai_flags"))
       IN  IF urls.threw \/ urgent.threw \/ creds.threw \/ flags.threw THEN Throws
           ELSE Returns(urls.val \o urgent.val \o creds.val \o flags.val)

\* lines 146-148
TechSummaryPart(responseData) ==
  LET riskLevel == OrElse(Get(responseData, "risk_level"), Str(<<"unknown">>))
      riskScore == OrElse(Get(responseData, "risk_score"), Num(0))
  IN  IF riskLevel.k # "string" THEN Throws
      ELSE Returns(<<"Final Risk Assessment:", "\n", "* Level: ">>
                     \o ToUpperCase(riskLevel.s)
                     \o <<"\n", "* Score: ">> \o Percent(riskScore))

extractTechnicalAnalysis(responseData) ==
  IF AccessThrows(responseData) THEN Throws
  ELSE LET f        == Get(responseData, "features")
           ai       == TechAIPart(f)
           elements == TechElementsPart(Get(responseData, "suspicious_elements"))
           summary  == TechSummaryPart(responseData)
       IN  IF ai.threw \/ elements.threw \/ summary.threw THEN Throws
           ELSE LET analysis == Trim(ai.val \o TechRulePart(f) \o elements.val
                                       \o summary.val)
                IN  Returns(IF analysis # <<>> THEN analysis
                            ELSE <<"No technical analysis data available">>)

----------------------------------------------------------------------------
(* The value analyzeWithRetry returns on success (lines 207-230)           *)

EmptyObject == Obj(<<>>)
EmptyArray  == Arr(<<>>)

\* mutation: the result is read from a field the server does not send
structuredData_WrongKey(responseData, ai, tech) ==
  [ risk_level               |-> Get(responseData, "risk_level"),
    risk_score               |-> Get(responseData, "risk_score"),
    result                   |-> Get(responseData, "report"),
    suspicious_elements      |-> OrElse(Get(responseData, "suspicious_elements"),
                                        EmptyObject),
    features                 |-> OrElse(Get(responseData, "features"), EmptyObject),
    ai_analysis              |-> Str(ai),
    technical_analysis       |-> Str(tech),
    security_recommendations |-> OrElse(Get(responseData, "security_recommendations"),
                                        EmptyArray) ]

\* lines 208-219
structuredData(responseData, ai, tech) ==
  [ risk_level               |-> Get(responseData, "risk_level"),
    risk_score               |-> Get(responseData, "risk_score"),
    result                   |-> Get(responseData, "result"),
    suspicious_elements      |-> OrElse(Get(responseData, "suspicious_elements"),
                                        EmptyObject),
    features                 |-> OrElse(Get(responseData, "features"), EmptyObject),
    ai_analysis              |-> Str(ai),
    technical_analysis       |-> Str(tech),
    security_recommendations |-> OrElse(Get(responseData, "security_recommendations"),
                                        EmptyArray) ]

SuccessResult(responseData, ai, tech) ==
  [ success            |-> TRUE,
    data               |-> structuredData(responseData, ai, tech),
    report             |-> Get(responseData, "result"),
    riskScore          |-> Get(responseData, "risk_score"),
    riskLevel          |-> Get(responseData, "risk_level"),
    suspiciousElements |-> OrElse(Get(responseData, "suspicious_elements"), EmptyObject),
    features           |-> OrElse(Get(responseData, "features"), EmptyObject) ]

\* lines 207-230: the success value, or the TypeError the construction raises
Normalize(responseData) ==
  LET ai   == extractAIAnalysis(responseData)
      tech == extractTechnicalAnalysis(responseData)
  IN  IF AccessThrows(responseData) \/ ai.threw \/ tech.threw THEN Throws
      ELSE Returns(SuccessResult(responseData, ai.val, tech.val))

----------------------------------------------------------------------------
(* JSON.stringify                                                          *)

RECURSIVE Stringify(_)
RECURSIVE StringifyMembers(_, _)
RECURSIVE StringifyElements(_)

\* the members of object o whose keys are in `keys`, comma separated
StringifyMembers(o, keys) ==
  IF keys = {} THEN <<>>
  ELSE LET key  == CHOOSE f \in keys : TRUE
           rest == keys \ {key}
       IN  <<S(key), P(":")>> \o Stringify(o[key])
             \o (IF rest = {} THEN <<>> ELSE <<P(",")>> \o StringifyMembers(o, rest))

StringifyElements(a) ==
  IF a = <<>> THEN <<>>
  ELSE Stringify(Head(a))
         \o (IF Tail(a) = <<>> THEN <<>> ELSE <<P(",")>> \o StringifyElements(Tail(a)))

\* an undefined member is left out of an object, as JSON.stringify does
Stringify(v) ==
  CASE v.k = "string"  -> <<S(v.s)>>
    [] v.k = "number"  -> <<N(v.n)>>
    [] v.k = "boolean" -> <<L(IF v.b THEN "true" ELSE "false")>>
    [] v.k = "object"  -> <<P("{")>>
                            \o StringifyMembers(v.o, {f \in DOMAIN v.o : v.o[f].k # "undefined"})
                            \o <<P("}")>>
    [] v.k = "array"   -> <<P("[")>> \o StringifyElements(v.a) \o <<P("]")>>
    [] OTHER           -> <<L("null")>>

----------------------------------------------------------------------------
(* Errors and the responses passed to sendResponse                         *)

\* an error message: a fixed text, or a text built from a status and a body
Lit(s)  == [fmt |-> s, status |-> 0, text |-> <<>>]
JSError(name, message) == [name |-> name, message |-> message]

\* error.message.includes(needle), for the fixed-text messages of a TypeError
MessageIncludes(message, needle) == message.fmt = needle

\* mutation: the message carries the whole body
InvalidJSONError_Whole(textData) ==
  JSError("Error", [fmt |-> "Invalid JSON response", status |-> 0, text |-> textData])

\* new Error(`Invalid JSON response: ${textData.substring(0, 100)}...`)
InvalidJSONError(textData) ==
  JSError("Error",
          [fmt |-> "Invalid JSON response", status |-> 0,
           text |-> SubSeq(textData, 1,
                           IF Len(textData) < SnippetLen THEN Len(textData)
                           ELSE SnippetLen)])

\* new Error(`HTTP ${response.status}: ${textData}`)
HTTPError(status, textData) ==
  JSError("Error", [fmt |-> "HTTP", status |-> status, text |-> textData])

TimedOutError ==
  JSError("Error", Lit("Request timed out. The server might be unavailable."))
CouldNotConnectError ==
  JSError("Error",
          Lit("Could not connect to API server. Ensure the Python server is running."))

\* the TypeError a property access or method call on a missing value raises
NormalizeError == JSError("TypeError", Lit("Cannot read properties of undefined"))

NoBodyResponse == [error |-> Lit("No email body provided for analysis.")]

\* mutation: a failure is answered with a stand-in report beside the error
FailureResponse_Degraded(error) ==
  [error |-> [fmt |-> "Analysis failed", inner |-> error.message],
   errorDetails |-> error,
   report |-> Str(<<"Analysis unavailable">>)]

\* { error: `Analysis failed: ${error.message}. Please try again.`,
\*   errorDetails: error.toString() }
FailureResponse(error) ==
  [error |-> [fmt |-> "Analysis failed", inner |-> error.message],
   errorDetails |-> error]

----------------------------------------------------------------------------
(* What the network can do to one attempt                                  *)

API_URL == "http://localhost:8000/analyze_text"

StatusCodes == {200, 404, 500}

\* response.ok
Ok(status) == status \in 200..299

\* The signal of line 179 is the only abort source.  AbortSignal.timeout aborts
\* with a DOMException named TimeoutError; a fetch implementation that ignores
\* the signal's reason rejects with AbortError instead.
TimeoutErrors ==
  { JSError("TimeoutError", Lit("signal timed out")),
    JSError("AbortError", Lit("The user aborted a request.")) }

\* fetch() rejects: no connection, DNS failure
ConnectErrors == { JSError("TypeError", Lit("Failed to fetch")) }

\* response.text() rejects: the connection drops while the body is read
BodyErrors == { JSError("TypeError", Lit("network error")) }

Cause(error) == IF error \in TimeoutErrors THEN "timeout" ELSE "network"

\* Payloads the server is known to send, and some it may send
FullPayload ==
  Obj(<<"result">> :> Str(<<"[siren]", " ", "HIGH RISK", "\n", AILabel, " ",
                            "credential phishing", "\n", "[clipboard]", " ", "rules">>)
      @@ <<"risk_level">> :> Str(<<"high">>)
      @@ <<"risk_score">> :> Num(85)
      @@ <<"features">> :>
           Obj(<<"has_ai_analysis">> :> Bool(TRUE)
               @@ <<"ai_confidence">> :> Num(90)
               @@ <<"ai_risk_assessment">> :> Str(<<"high">>)
               @@ <<"has_urgency">> :> Bool(TRUE)
               @@ <<"has_suspicious_links">> :> Bool(FALSE)
               @@ <<"has_typosquatting">> :> Bool(TRUE))
      @@ <<"suspicious_elements">> :>
           Obj(<<"urls">> :> Arr(<<Str(<<"http://paypa1.example">>)>>)
               @@ <<"urgent_phrases">> :> Arr(<<Str(<<"act now">>)>>))
      @@ <<"detailed_analysis">> :> Str(<<" ", "Likely phishing.", "\n">>)
      @@ <<"security_recommendations">> :> Arr(<<Str(<<"Do not click links">>)>>))

BarePayload == Obj(<<>>)

RulesOnlyPayload ==
  Obj(<<"result">> :> Str(<<"[check]", " ", "Looks safe">>)
      @@ <<"risk_level">> :> Str(<<"low">>)
      @@ <<"risk_score">> :> Num(10)
      @@ <<"features">> :> Obj(<<"has_urgency">> :> Bool(FALSE)
                               @@ <<"has_poor_formatting">> :> Bool(TRUE)))

\* the AI ran but its risk assessment is absent
NoAssessmentPayload ==
  Obj(<<"risk_level">> :> Str(<<"medium">>)
      @@ <<"features">> :> Obj(<<"has_ai_analysis">> :> Bool(TRUE)))

Payloads == {FullPayload, BarePayload, RulesOnlyPayload, NoAssessmentPayload, Null}

\* Bodies that are not JSON: nothing, an error page, a long error page, and a
\* JSON document cut short
ShortPage == [i \in 1..5 |-> X(i)]
LongPage  == [i \in 1..LongLen |-> X(i)]
CutShort  == <<P("{"), S(<<"result">>), P(":")>>

Bodies == {Stringify(v) : v \in Payloads} \cup {<<>>, ShortPage, LongPage, CutShort}

----------------------------------------------------------------------------
(* The steps of analyzeWithRetry between two suspensions                   *)

Wait          == [do |-> "wait",   error |-> JSError("", Lit("")), value |-> <<>>]
Return(v)     == [do |-> "return", error |-> JSError("", Lit("")), value |-> v]
Reject(e)     == [do |-> "reject", error |-> e, value |-> <<>>]

\* lines 231-242: the catch block, reached by a rejected fetch or body read and
\* by every throw inside the try block
Catch(error, attempt) ==
  IF error.name = "AbortError" THEN Reject(TimedOutError)
  ELSE IF error.name = "TypeError" /\ MessageIncludes(error.message, "Failed to fetch")
       THEN Reject(CouldNotConnectError)
  ELSE IF attempt = retryCount THEN Reject(error)
  ELSE Wait

\* lines 186-196: an unparseable body
ParseFailed(textData, attempt) ==
  IF attempt < retryCount THEN Wait
  ELSE Catch(InvalidJSONError(textData), attempt)

\* mutation: a 500 is retried without looking at the attempts left
NotOk_NoBudget(status, textData, attempt) ==
  IF status = 500 THEN Wait
  ELSE Catch(HTTPError(status, textData), attempt)

\* lines 198-205: a parseable body with a status outside 200-299
NotOk(status, textData, attempt) ==
  IF status = 500 /\ attempt < retryCount THEN Wait
  ELSE Catch(HTTPError(status, textData), attempt)

\* lines 207-230: a parseable body with a status in 200-299
Structure(responseData, attempt) ==
  LET n == Normalize(responseData) IN
  IF n.threw THEN Catch(NormalizeError, attempt) ELSE Return(n.val)

\* mutation: the status is looked at before the body is parsed
AfterText_StatusFirst(status, textData, attempt) ==
  LET parsed == JSONparse(textData) IN
  IF ~Ok(status) THEN NotOk(status, textData, attempt)
  ELSE IF ~parsed.ok THEN ParseFailed(textData, attempt)
  ELSE Structure(parsed.val, attempt)

\* lines 183-230: from the body text to the next suspension or the return
AfterText(status, textData, attempt) ==
  LET parsed == JSONparse(textData) IN
  IF ~parsed.ok THEN ParseFailed(textData, attempt)
  ELSE IF ~Ok(status) THEN NotOk(status, textData, attempt)
  ELSE Structure(parsed.val, attempt)

\* mutation: only an absent body is rejected
HasBody_Defined(body) == body.k # "undefined"

\* line 158: !emailBody is false
HasBody(body) == Truthy(body)

\* mutation: the loop variable is not advanced
NextAttempt_Stuck(attempt) == attempt

\* attempt++ of the for loop
NextAttempt(attempt) == attempt + 1

\* attempt <= retryCount of the for loop
LoopCondition(attempt) == attempt <= retryCount

\* mutation: the text is sent as it is, not wrapped in an object
FetchCall_Bare(emailBody) ==
  [url |-> API_URL, method |-> "POST", body |-> Stringify(emailBody)]

\* lines 169-180: the request of one attempt
FetchCall(emailBody) ==
  [url |-> API_URL, method |-> "POST",
   body |-> Stringify(Obj(<<"text">> :> emailBody))]

----------------------------------------------------------------------------
(* State                                                                   *)

Req == {"r1", "r2"}

VARIABLES
  pc,        \* per request: where its handler is
  emailBody, \* per request: request.emailBody
  attempt,   \* per request: the loop variable of analyzeWithRetry
  response,  \* per request: the response of the current loop iteration
  fetches,   \* per request: the fetch calls issued so far
  timers,    \* per request: the delays of the setTimeout calls made so far
  history,   \* per request: what each finished attempt met
  outcome,   \* per request: the promise analyzeWithRetry returned
  sent,      \* per request: the arguments of the sendResponse calls so far
  backend,   \* per request: what the server answers to each attempt, when fixed
  disabled,  \* popup: analyzeButton.disabled
  statusDiv, \* popup: what the status line shows
  sections,  \* popup: which of the three result sections are displayed
  flow,      \* per click: where the click handler and its callbacks are
  tab,       \* per click: what chrome.tabs.query resolved with
  replies,   \* per click: the arguments of the content script's sendResponse calls
  mail,      \* per request: the analyze_email message the popup sent
  classList, \* per element of a section: its class list
  textContent, \* per section: the text of its toggle
  trail      \* per section: its indicators as loaded and after each toggleSection call

popupVars == <<disabled, statusDiv, sections, flow, tab, replies, mail>>

toggleVars == <<classList, textContent, trail>>

vars == <<pc, emailBody, attempt, response, fetches, timers, history, outcome, sent,
          backend, popupVars, toggleVars>>

NoResponse == [status |-> 0, text |-> <<>>]
Pending    == [state |-> "pending"]

EmailBodies ==
  { Undefined, Null, Str(<<>>),
    Str(<<"Dear user,", " ", "verify your account">>),
    Str(<<"Lunch", " ", "at noon?">>) }

Messages ==
  [action : {"analyze_email"}, emailBody : EmailBodies]
    \cup {[action |-> "get_email_body", emailBody |-> Undefined]}

\* what one attempt met: the status and whether the body parsed, or the cause
\* of the transport failure
Met(status, textData) ==
  [status |-> status, parsed |-> JSONparse(textData).ok,
   threw |-> Ok(status) /\ JSONparse(textData).ok
               /\ Normalize(JSONparse(textData).val).threw,
   cause |-> "none"]
Failed(error) == [status |-> 0, parsed |-> FALSE, threw |-> FALSE, cause |-> Cause(error)]

\* two clicks on the analyze button, and the call of the background script
\* that each of them leads to
Click == {"c1", "c2"}
RequestOf(c) == IF c = "c1" THEN "r1" ELSE "r2"

\* content.js lines 26 and 39: a text of this length or less is not a body
MinLength == 50

\* a text of n characters
Text(n, ch) == [i \in 1..n |-> ch]

\* what document.querySelector returns: null, or an element with its text
NoElement     == [found |-> FALSE, innerText |-> <<>>]
Element(text) == [found |-> TRUE, innerText |-> text]

\* a div of the document: its text, whether it is rendered (offsetParent is not
\* null), and whether it lies in a toolbar or in a signature
Div(text, rendered, toolbar, signature) ==
  [innerText |-> text, rendered |-> rendered, toolbar |-> toolbar,
   signature |-> signature]

\* content.js lines 11-22
selectors ==
  << "div.nH.hx div.nH.If div.nH.hp div.nH.pp div.nH.oy8Mbf:not(.adz) div.ii.gt",
     "div.a3s.aXjCH",
     "div.ii.gt",
     "div[role=listitem] div[dir=ltr]",
     "div[role=article] div[dir=ltr]",
     "div.gs",
     "div.go" >>

\* a document: the first element each selector matches, and its divs in
\* document order
Document(matches, allDivs) == [querySelector |-> matches, allDivs |-> allDivs]
NoMatch == [i \in DOMAIN selectors |-> NoElement]

\* a tab as chrome.tabs.query reports it; the url is undefined when the
\* extension may not read it
Tab(url, document) == [url |-> url, document |-> document]

\* the query found no tab: the array is empty and tab is undefined
NoTab == [url |-> Undefined, document |-> Document(NoMatch, <<>>), none |-> TRUE]

\* no analyze_email message was sent
NoMail == [action |-> "none", emailBody |-> Undefined]

\* the three result sections, by the id of their element
SectionIds == {"summarySection", "aiSection", "ruleSection"}
AllHidden == [s \in SectionIds |-> "none"]
AllShown  == [s \in SectionIds |-> "block"]

\* the status line: which of showLoading, showError, showSuccess wrote it last,
\* and the message
NoStatus == [shown |-> "nothing", message |-> ""]

\* the popup is open, nothing was clicked
InitPopup(display) ==
  /\ disabled = FALSE
  /\ statusDiv = NoStatus
  /\ sections = display
  /\ flow     = [c \in Click |-> "none"]
  /\ tab      = [c \in Click |-> NoTab]
  /\ replies  = [c \in Click |-> <<>>]
  /\ mail     = [r \in Req |-> NoMail]

\* popup.js lines 3-4: the collapsible sections, and the ids of the two
\* elements toggleSection looks up for each
SectionNames == {"summary", "ai", "rule"}
ContentOf(sectionName) == <<sectionName, "Content">>
ToggleOf(sectionName)  == <<sectionName, "Toggle">>

\* popup.js lines 8 and 12: the two triangles
DownTriangle  == "U+25BC"
RightTriangle == "U+25B6"

\* the three indicators of a section as they are now
Indicators(classes, texts, sectionName) ==
  [content |-> classes[ContentOf(sectionName)],
   toggle  |-> classes[ToggleOf(sectionName)],
   text    |-> texts[sectionName]]

\* the popup's document as loaded: the class lists of the sections' elements
\* and the texts of their toggles
InitSections(loaded) ==
  /\ classList = [id \in {ContentOf(s) : s \in SectionNames}
                          \cup {ToggleOf(s) : s \in SectionNames} |->
                    IF id[2] = "Content" THEN loaded[id[1]].content
                    ELSE loaded[id[1]].toggle]
  /\ textContent = [s \in SectionNames |-> loaded[s].text]
  /\ trail = [s \in SectionNames |-> <<loaded[s]>>]

\* every section expanded
Expanded ==
  [s \in SectionNames |->
     [content |-> <<"section-content">>, toggle |-> <<>>, text |-> DownTriangle]]

\* the listener is registered and the messages of `arriving` are on their way
InitRequests(arriving) ==
  /\ pc        = [r \in Req |-> IF r \in arriving THEN "idle" ELSE "none"]
  /\ emailBody = [r \in Req |-> Undefined]
  /\ attempt   = [r \in Req |-> 0]
  /\ response  = [r \in Req |-> NoResponse]
  /\ fetches   = [r \in Req |-> <<>>]
  /\ timers    = [r \in Req |-> <<>>]
  /\ history   = [r \in Req |-> <<>>]
  /\ outcome   = [r \in Req |-> Pending]
  /\ sent      = [r \in Req |-> <<>>]

\* the server is free to answer anything to any attempt
AnyBackend == [r \in Req |-> <<>>]

\* one analyze_email message reaches the listener
Init == InitRequests({"r1"}) /\ backend = AnyBackend /\ InitPopup(AllHidden) /\ InitSections(Expanded)

----------------------------------------------------------------------------
(* Actions                                                                 *)

\* mutation: the text to analyse is kept in one place for all calls, and the
\* message of r2 overwrites it
EnterLoop_SharedText(r, a, body) ==
  /\ attempt' = [attempt EXCEPT ![r] = a]
  /\ response' = [response EXCEPT ![r] = NoResponse]
  /\ IF LoopCondition(a)
     THEN /\ fetches' = [fetches EXCEPT ![r] =
                           Append(@, FetchCall(IF Truthy(emailBody["r2"])
                                               THEN emailBody["r2"] ELSE body))]
          /\ pc' = [pc EXCEPT ![r] = "fetch"]
          /\ outcome' = outcome
     ELSE /\ fetches' = fetches
          /\ pc' = [pc EXCEPT ![r] = "settled"]
          /\ outcome' = [outcome EXCEPT ![r] = [state |-> "fulfilled", value |-> Undefined]]

\* the loop goes round: the condition is tested and, when it holds, the next
\* fetch is issued; when it fails the function returns undefined
EnterLoop(r, a, body) ==
  /\ attempt' = [attempt EXCEPT ![r] = a]
  /\ response' = [response EXCEPT ![r] = NoResponse]
  /\ IF LoopCondition(a)
     THEN /\ fetches' = [fetches EXCEPT ![r] = Append(@, FetchCall(body))]
          /\ pc' = [pc EXCEPT ![r] = "fetch"]
          /\ outcome' = outcome
     ELSE /\ fetches' = fetches
          /\ pc' = [pc EXCEPT ![r] = "settled"]
          /\ outcome' = [outcome EXCEPT ![r] = [state |-> "fulfilled", value |-> Undefined]]

\* mutation: the delay doubles with every wait
Proceed_Backoff(r, step) ==
  /\ CASE step.do = "wait" ->
            /\ timers' = [timers EXCEPT ![r] = Append(@, delay * (Len(@) + 1))]
            /\ pc' = [pc EXCEPT ![r] = "timer"]
            /\ outcome' = outcome
       [] step.do = "return" ->
            /\ timers' = timers
            /\ pc' = [pc EXCEPT ![r] = "settled"]
            /\ outcome' = [outcome EXCEPT ![r] = [state |-> "fulfilled", value |-> step.value]]
       [] step.do = "reject" ->
            /\ timers' = timers
            /\ pc' = [pc EXCEPT ![r] = "settled"]
            /\ outcome' = [outcome EXCEPT ![r] = [state |-> "rejected", error |-> step.error]]

\* what follows a step of analyzeWithRetry: a timer, or the promise settles
Proceed(r, step) ==
  /\ CASE step.do = "wait" ->
            /\ timers' = [timers EXCEPT ![r] = Append(@, delay)]
            /\ pc' = [pc EXCEPT ![r] = "timer"]
            /\ outcome' = outcome
       [] step.do = "return" ->
            /\ timers' = timers
            /\ pc' = [pc EXCEPT ![r] = "settled"]
            /\ outcome' = [outcome EXCEPT ![r] = [state |-> "fulfilled", value |-> step.value]]
       [] step.do = "reject" ->
            /\ timers' = timers
            /\ pc' = [pc EXCEPT ![r] = "settled"]
            /\ outcome' = [outcome EXCEPT ![r] = [state |-> "rejected", error |-> step.error]]

\* lines 153-161 and 247-257: the listener, up to its return
OnMessage(r, request) ==
  /\ pc[r] = "idle"
  /\ IF request.action # "analyze_email"
     THEN /\ pc' = [pc EXCEPT ![r] = "ignored"]
          /\ UNCHANGED <<emailBody, attempt, response, fetches, outcome, sent>>
     ELSE /\ emailBody' = [emailBody EXCEPT ![r] = request.emailBody]
          /\ IF ~HasBody(request.emailBody)
             THEN /\ sent' = [sent EXCEPT ![r] = Append(@, NoBodyResponse)]
                  /\ pc' = [pc EXCEPT ![r] = "done"]
                  /\ UNCHANGED <<attempt, response, fetches, outcome>>
             ELSE /\ EnterLoop(r, 1, request.emailBody)
                  /\ sent' = sent
  /\ UNCHANGED <<timers, history, backend, popupVars, toggleVars>>

\* line 169: the fetch resolves with a response
FetchResolves(r, status, textData) ==
  /\ pc[r] = "fetch"
  /\ response' = [response EXCEPT ![r] = [status |-> status, text |-> textData]]
  /\ pc' = [pc EXCEPT ![r] = "text"]
  /\ UNCHANGED <<emailBody, attempt, fetches, timers, history, outcome, sent, backend, popupVars, toggleVars>>

\* line 169: the fetch rejects, and the catch block runs
FetchRejects(r, error) ==
  /\ pc[r] = "fetch"
  /\ history' = [history EXCEPT ![r] = Append(@, Failed(error))]
  /\ Proceed(r, Catch(error, attempt[r]))
  /\ UNCHANGED <<emailBody, attempt, response, fetches, sent, backend, popupVars, toggleVars>>

\* line 183: the body arrives, and lines 184-230 run
TextResolves(r) ==
  /\ pc[r] = "text"
  /\ history' = [history EXCEPT ![r] = Append(@, Met(response[r].status, response[r].text))]
  /\ Proceed(r, AfterText(response[r].status, response[r].text, attempt[r]))
  /\ UNCHANGED <<emailBody, attempt, response, fetches, sent, backend, popupVars, toggleVars>>

\* line 183: reading the body fails, and the catch block runs
TextRejects(r, error) ==
  /\ pc[r] = "text"
  /\ history' = [history EXCEPT ![r] = Append(@, Failed(error))]
  /\ Proceed(r, Catch(error, attempt[r]))
  /\ UNCHANGED <<emailBody, attempt, response, fetches, sent, backend, popupVars, toggleVars>>

\* mutation: the calls share one loop variable, which every call advances
TimerFires_SharedCounter(r) ==
  /\ pc[r] = "timer"
  /\ Len(fetches[r]) < MaxCalls
  /\ EnterLoop(r, NextAttempt(CHOOSE a \in {attempt[q] : q \in Req} :
                                \A q \in Req : attempt[q] <= a),
               emailBody[r])
  /\ UNCHANGED <<emailBody, timers, history, sent, backend, popupVars, toggleVars>>

\* lines 192, 201, 241: the delay is over and the loop goes round
TimerFires(r) ==
  /\ pc[r] = "timer"
  /\ Len(fetches[r]) < MaxCalls
  /\ EnterLoop(r, NextAttempt(attempt[r]), emailBody[r])
  /\ UNCHANGED <<emailBody, timers, history, sent, backend, popupVars, toggleVars>>

\* mutation: a failed attempt is reported at once, while its retry is still
\* to come
Respond_Early(r) ==
  /\ pc[r] \in {"settled", "timer"}
  /\ sent[r] = <<>>
  /\ sent' = [sent EXCEPT ![r] =
                Append(@, IF pc[r] = "timer"
                          THEN FailureResponse(JSError("Error", Lit("Attempt failed")))
                          ELSE IF outcome[r].state = "fulfilled" THEN outcome[r].value
                          ELSE FailureResponse(outcome[r].error))]
  /\ pc' = [pc EXCEPT ![r] = IF pc[r] = "timer" THEN "timer" ELSE "done"]
  /\ UNCHANGED <<emailBody, attempt, response, fetches, timers, history, outcome, backend, popupVars, toggleVars>>

\* lines 248-255: the promise's reaction calls sendResponse
Respond(r) ==
  /\ pc[r] = "settled"
  /\ sent' = [sent EXCEPT ![r] =
                Append(@, IF outcome[r].state = "fulfilled" THEN outcome[r].value
                          ELSE FailureResponse(outcome[r].error))]
  /\ pc' = [pc EXCEPT ![r] = "done"]
  /\ UNCHANGED <<emailBody, attempt, response, fetches, timers, history, outcome, backend, popupVars, toggleVars>>

Next ==
  \/ \E r \in Req, request \in Messages : OnMessage(r, request)
  \/ \E r \in Req, status \in StatusCodes, textData \in Bodies :
       FetchResolves(r, status, textData)
  \/ \E r \in Req, error \in TimeoutErrors \cup ConnectErrors : FetchRejects(r, error)
  \/ \E r \in Req : TextResolves(r)
  \/ \E r \in Req, error \in TimeoutErrors \cup BodyErrors : TextRejects(r, error)
  \/ \E r \in Req : TimerFires(r)
  \/ \E r \in Req : Respond(r)

Spec == Init /\ [][Next]_vars

\* what the event loop owes a call that is under way: a fetch completes or is
\* cut off by the signal of line 179, a timer fires, a settled promise runs its
\* reaction
Advance(r) ==
  \/ \E status \in StatusCodes, textData \in Bodies : FetchResolves(r, status, textData)
  \/ \E error \in TimeoutErrors \cup ConnectErrors : FetchRejects(r, error)
  \/ TimerFires(r)
  \/ Respond(r)

\* line 183: a body read does not stay pending; it resolves or the signal cuts
\* it off, and either way the handler leaves the await
BodyReadEnds(r) == []<>(pc[r] # "text")

FairSpec == Spec /\ \A r \in Req : WF_vars(Advance(r)) /\ BodyReadEnds(r)

----------------------------------------------------------------------------
(* A server whose answers are fixed in advance                             *)

\* the server's answer to one attempt: a response, or no connection
Answer(status, textData) ==
  [kind |-> "response", status |-> status, text |-> textData,
   error |-> JSError("", Lit(""))]
Refusal(error) ==
  [kind |-> "refused", status |-> 0, text |-> <<>>, error |-> error]

\* the same answer to every attempt
Always(answer) == [i \in 1..retryCount |-> answer]

\* the field is present with this value, or absent
Field(name, present, v) == IF present THEN <<name>> :> v ELSE <<>>

\* the result text of the server: with the labelled AI section, with the
\* labelled section and a note of the safety filter, with the note alone,
\* plain, and absent
ResultTexts ==
  { Str(<<"[siren]", " ", "HIGH RISK", "\n", AILabel, " ", "credential phishing",
          "\n", "[clipboard]", " ", "rules">>),
    Str(<<AILabel, " ", "held by the ", "safety filter", "\n", "[check]", " ", "ok">>),
    Str(<<"[check]", " ", "AI analysis was blocked", " ", "by policy">>),
    Str(<<"[check]", " ", "Looks safe">>),
    Undefined }

DetailedTexts == { Undefined, Str(<<" ", "\n">>), Str(<<" ", "Likely phishing.", "\n">>) }

\* a dedicated technical-analysis field, absent or present
DedicatedTexts == { Undefined, Str(<<"Server-side technical notes">>) }

\* the features mapping: the AI ran or not, an AI feature, a rule feature
\* flagged, cleared or absent, and a feature the tables do not know
FeatureMaps ==
  { Obj(Field("has_ai_analysis", ai, Bool(TRUE))
        @@ Field("ai_confidence", ai, Num(90))
        @@ Field("ai_risk_assessment", ai, Str(<<"high">>))
        @@ Field("has_urgency", TRUE, Bool(urgency))
        @@ Field("has_typosquatting", typo # "absent", Bool(typo = "true"))
        @@ Field("has_attachment", TRUE, Bool(TRUE))) :
      ai \in BOOLEAN, urgency \in BOOLEAN, typo \in {"absent", "false", "true"} }

\* the risk scores of the server, in hundredths: in range, above, below, absent
RiskScores == { Num(85), Num(150), Num(0 - 20), Undefined }

ShapedPayload(result, detailed, dedicated, features, score) ==
  Obj(Field("result", result # Undefined, result)
      @@ Field("risk_level", score # Undefined, Str(<<"high">>))
      @@ Field("risk_score", score # Undefined, score)
      @@ Field("features", TRUE, features)
      @@ Field("suspicious_elements", TRUE,
               Obj(<<"urls">> :> Arr(<<Str(<<"http://paypa1.example">>)>>)))
      @@ Field("detailed_analysis", detailed # Undefined, detailed)
      @@ Field("technical_analysis", dedicated # Undefined, dedicated)
      @@ Field("security_recommendations", TRUE,
               Arr(<<Str(<<"Do not click links">>)>>)))

\* every field of the shape is there, and every one is empty
EmptyShapedPayload ==
  Obj(<<"result">> :> Str(<<>>)
      @@ <<"risk_level">> :> Str(<<>>)
      @@ <<"risk_score">> :> Num(0)
      @@ <<"features">> :> Obj(<<>>)
      @@ <<"suspicious_elements">> :> Obj(<<>>)
      @@ <<"security_recommendations">> :> Arr(<<>>))

\* responses in the shape of the server's, field by field
ShapedPayloads ==
  { ShapedPayload(result, detailed, dedicated, features, Num(85)) :
      result \in ResultTexts, detailed \in DetailedTexts,
      dedicated \in DedicatedTexts, features \in FeatureMaps }
  \cup
  { ShapedPayload(Str(<<"[check]", " ", "Looks safe">>), Undefined, Undefined,
                  Obj(<<"has_urgency">> :> Bool(FALSE)), score) :
      score \in RiskScores }
  \cup { EmptyShapedPayload }

\* the server answers 200 with the same payload to every attempt
PayloadScripts ==
  { Always(Answer(200, Stringify(p))) : p \in ShapedPayloads \cup Payloads }

\* line 169: the fetch resolves with the server's answer to this attempt
ServerAnswers(r) ==
  /\ attempt[r] \in DOMAIN backend[r]
  /\ backend[r][attempt[r]].kind = "response"
  /\ FetchResolves(r, backend[r][attempt[r]].status, backend[r][attempt[r]].text)

\* line 169: the fetch rejects as the server's script says
ServerRefuses(r) ==
  /\ attempt[r] \in DOMAIN backend[r]
  /\ backend[r][attempt[r]].kind = "refused"
  /\ FetchRejects(r, backend[r][attempt[r]].error)

\* one request against a server that answers 200 with a fixed payload
InitPayloads ==
  /\ InitRequests({"r1"})
  /\ InitPopup(AllHidden)
  /\ InitSections(Expanded)
  /\ backend \in { [r \in Req |-> IF r = "r1" THEN script ELSE <<>>] :
                     script \in PayloadScripts }

NextPayloads ==
  \/ \E r \in Req, request \in Messages : OnMessage(r, request)
  \/ \E r \in Req : ServerAnswers(r)
  \/ \E r \in Req : TextResolves(r)
  \/ \E r \in Req : TimerFires(r)
  \/ \E r \in Req : Respond(r)

SpecPayloads == InitPayloads /\ [][NextPayloads]_vars

----------------------------------------------------------------------------
(* Two requests in the service worker at once                              *)

\* what the server answers to the attempts of one call, attempt by attempt
Scripts ==
  { Always(Answer(200, Stringify(FullPayload))),
    <<Answer(500, Stringify(BarePayload)), Answer(500, Stringify(BarePayload)),
      Answer(200, Stringify(RulesOnlyPayload))>>,
    Always(Answer(500, Stringify(BarePayload))),
    <<Answer(200, ShortPage), Answer(404, Stringify(BarePayload)),
      Refusal(JSError("TimeoutError", Lit("signal timed out")))>>,
    <<Refusal(JSError("TimeoutError", Lit("signal timed out"))),
      Answer(200, CutShort), Answer(200, Stringify(BarePayload))>>,
    Always(Refusal(JSError("TypeError", Lit("Failed to fetch")))),
    Always(Answer(200, Stringify(NoAssessmentPayload))) }

\* both messages are on their way, each call with its own server script
InitPair ==
  /\ InitRequests(Req)
  /\ InitPopup(AllHidden)
  /\ InitSections(Expanded)
  /\ backend \in [Req -> Scripts]

NextPair ==
  \/ \E r \in Req, request \in Messages : OnMessage(r, request)
  \/ \E r \in Req : ServerAnswers(r)
  \/ \E r \in Req : ServerRefuses(r)
  \/ \E r \in Req : TextResolves(r)
  \/ \E r \in Req : TimerFires(r)
  \/ \E r \in Req : Respond(r)

SpecPair == InitPair /\ [][NextPair]_vars

----------------------------------------------------------------------------
(* The popup's callback for the analysis response (popup.js)               *)

\* analysisResponse && analysisResponse.<name>, as a condition: success is a
\* boolean, data an object, report a value of the payload, error a string that
\* is never empty
Holds(analysisResponse, name) ==
  /\ name \in DOMAIN analysisResponse
  /\ CASE name = "success" -> analysisResponse.success
       [] name = "report"  -> Truthy(analysisResponse.report)
       [] OTHER            -> TRUE

\* popup.js lines 188-201: the status line shown and the argument
\* displayAnalysis is called with, if it is called
OnAnalysisResponse(analysisResponse) ==
  IF Holds(analysisResponse, "success") /\ Holds(analysisResponse, "data")
  THEN [status |-> "showSuccess", message |-> "Analysis complete!",
        displayAnalysis |-> <<analysisResponse>>]
  ELSE IF Holds(analysisResponse, "report") \/ Holds(analysisResponse, "data")
  THEN [status |-> "showSuccess", message |-> "Analysis complete!",
        displayAnalysis |-> <<IF Holds(analysisResponse, "data")
                              THEN analysisResponse.data ELSE analysisResponse>>]
  ELSE IF Holds(analysisResponse, "error")
  THEN [status |-> "showError", message |-> "Analysis failed: ${error}",
        displayAnalysis |-> <<>>]
  ELSE [status |-> "showError", message |-> "No analysis report received.",
        displayAnalysis |-> <<>>]

----------------------------------------------------------------------------
(* The content script (content.js)                                         *)

\* line 26, and the first three conjuncts of line 39, for the text of an
\* element
LongEnough(innerText) == innerText # <<>> /\ Len(innerText) > MinLength

\* mutation: the selectors are tried from the last to the first
RECURSIVE TrySelectors_LastFirst(_, _)
TrySelectors_LastFirst(document, i) ==
  LET j  == Len(selectors) + 1 - i
      el == document.querySelector[j]
  IN  IF i > Len(selectors) THEN <<>>
      ELSE IF el.found /\ LongEnough(el.innerText) THEN el.innerText
      ELSE TrySelectors_LastFirst(document, i + 1)

\* lines 24-31: the loop over the selectors from the i-th on; the value of
\* emailBody after it
RECURSIVE TrySelectors(_, _)
TrySelectors(document, i) ==
  LET el == document.querySelector[i]
  IN  IF i > Len(selectors) THEN <<>>
      ELSE IF el.found /\ LongEnough(el.innerText) THEN el.innerText
      ELSE TrySelectors(document, i + 1)

\* lines 38-46: the loop over the divs from the i-th on, with the values of
\* maxLen and bestDiv so far (bestDiv is an index, 0 for null)
RECURSIVE ScanDivs(_, _, _, _)
ScanDivs(allDivs, i, maxLen, bestDiv) ==
  IF i > Len(allDivs) THEN bestDiv
  ELSE LET div == allDivs[i]
       IN  IF /\ div.rendered
              /\ LongEnough(div.innerText)
              /\ Len(div.innerText) > maxLen
              /\ ~div.toolbar /\ ~div.signature
           THEN ScanDivs(allDivs, i + 1, Len(div.innerText), i)
           ELSE ScanDivs(allDivs, i + 1, maxLen, bestDiv)

\* lines 8-51: the value of emailBody when the reply is made
ExtractEmailBody(document) ==
  LET bySelector == TrySelectors(document, 1)
      bestDiv    == ScanDivs(document.allDivs, 1, 0, 0)
  IN  IF bySelector # <<>> THEN bySelector
      ELSE IF bestDiv # 0 THEN document.allDivs[bestDiv].innerText
      ELSE <<>>

\* lines 53-58: the argument of sendResponse
ContentReply(document) ==
  IF ExtractEmailBody(document) # <<>>
  THEN [emailBody |-> Str(ExtractEmailBody(document))]
  ELSE [emailBody |-> Null]

\* the messages that reach the content script
GetEmailBody    == [action |-> "get_email_body"]
ContentMessages == {GetEmailBody, [action |-> "analyze_email"]}

----------------------------------------------------------------------------
(* The popup's display functions (popup.js)                                *)

showLoading(message) == [shown |-> "loading", message |-> message]
showError(message)   == [shown |-> "error",   message |-> message]
showSuccess(message) == [shown |-> "success", message |-> message]

\* lines 48-70: toUpperCase (line 63) and split (line 57) exist on strings only
displaySummarySectionThrows(data) ==
  \/ Truthy(data.risk_level) /\ data.risk_level.k # "string"
  \/ Truthy(data.result) /\ data.result.k # "string"

\* lines 84-89: forEach exists on arrays only, and is called when the value
\* has a length above 0
displayAISectionThrows(data) ==
  LET recs == data.security_recommendations
  IN  \/ recs.k = "string" /\ recs.s # <<>>
      \/ /\ recs.k = "object"
         /\ Get(recs, "length").k = "number"
         /\ Get(recs, "length").n > 0

\* lines 122-129
displayLegacyAnalysis ==
  [s \in SectionIds |-> IF s = "summarySection" THEN "block" ELSE "none"]

\* lines 18-46: the display of the sections when the function is left, and
\* whether it is left by a TypeError
displayAnalysis(analysisResult) ==
  LET structured == \/ "data" \in DOMAIN analysisResult
                    \/ /\ "risk_level" \in DOMAIN analysisResult
                       /\ Truthy(analysisResult.risk_level)
      data == IF "data" \in DOMAIN analysisResult THEN analysisResult.data
              ELSE analysisResult
  IN  IF structured
      THEN [sections |-> AllShown,
            threw |-> displaySummarySectionThrows(data) \/ displayAISectionThrows(data)]
      ELSE [sections |-> displayLegacyAnalysis, threw |-> FALSE]

----------------------------------------------------------------------------
(* The click handler of the analyze button and its callbacks (popup.js)    *)

backgroundVars ==
  <<pc, emailBody, attempt, response, fetches, timers, history, outcome, sent, backend>>

\* line 165: tab.url.startsWith('https://mail.google.com')
GmailPrefix == <<"https://mail.google.com">>
startsWith(s, prefix) ==
  Len(prefix) <= Len(s) /\ SubSeq(s, 1, Len(prefix)) = prefix

\* a message opened in Gmail, the inbox with no message open, a page whose
\* only long text is outside the known containers
MessageDocument ==
  Document([NoMatch EXCEPT ![3] = Element(Text(MinLength + 1, "m"))],
           <<Div(Text(MinLength + 1, "m"), TRUE, FALSE, FALSE)>>)
InboxDocument ==
  Document([NoMatch EXCEPT ![3] = Element(Text(MinLength, "i"))],
           <<Div(Text(MinLength, "i"), TRUE, FALSE, FALSE)>>)
OtherDocument ==
  Document(NoMatch, <<Div(Text(MinLength + 2, "o"), TRUE, FALSE, FALSE)>>)

\* the tabs the query may find: Gmail, a host whose name begins like Gmail's,
\* another site, and a tab whose url the extension may not read
Tabs ==
  { Tab(Str(<<"https://mail.google.com", "/mail/u/0/#inbox/abc">>), d) :
      d \in {MessageDocument, InboxDocument, OtherDocument} }
  \cup
  { Tab(Str(<<"https://mail.google.com", ".example.net/">>), OtherDocument),
    Tab(Str(<<"https://", "example.org/">>), OtherDocument),
    Tab(Undefined, OtherDocument) }

\* mutation: the button stays enabled while the click is handled
ClickAnalyze_StaysEnabled(c) ==
  /\ ~disabled
  /\ flow[c] = "none"
  /\ (c = "c2") => (flow["c1"] # "none")
  /\ statusDiv' = showLoading("Scanning email...")
  /\ sections' = AllHidden
  /\ disabled' = FALSE
  /\ flow' = [flow EXCEPT ![c] = "query"]
  /\ UNCHANGED <<tab, replies, mail, backgroundVars, toggleVars>>

\* mutation: the results of the last analysis stay on display
ClickAnalyze_KeepsResults(c) ==
  /\ ~disabled
  /\ flow[c] = "none"
  /\ (c = "c2") => (flow["c1"] # "none")
  /\ statusDiv' = showLoading("Scanning email...")
  /\ sections' = sections
  /\ disabled' = TRUE
  /\ flow' = [flow EXCEPT ![c] = "query"]
  /\ UNCHANGED <<tab, replies, mail, backgroundVars, toggleVars>>

\* lines 152-163: the click, up to the await; a disabled button gets no click,
\* and c2 is the click after c1
ClickAnalyze(c) ==
  /\ ~disabled
  /\ flow[c] = "none"
  /\ (c = "c2") => (flow["c1"] # "none")
  /\ statusDiv' = showLoading("Scanning email...")
  /\ sections' = AllHidden
  /\ disabled' = TRUE
  /\ flow' = [flow EXCEPT ![c] = "query"]
  /\ UNCHANGED <<tab, replies, mail, backgroundVars, toggleVars>>

\* lines 163-167 and 209-212: the query resolves and the handler runs to its
\* end; reading startsWith off an undefined url throws
TabQueryResolves(c, t) ==
  /\ flow[c] = "query"
  /\ tab' = [tab EXCEPT ![c] = t]
  /\ IF t # NoTab /\ AccessThrows(t.url)
     THEN /\ flow' = [flow EXCEPT ![c] = "thrown"]
          /\ UNCHANGED <<statusDiv, disabled>>
     ELSE IF t # NoTab /\ startsWith(t.url.s, GmailPrefix)
     THEN /\ flow' = [flow EXCEPT ![c] = "extract"]
          /\ UNCHANGED <<statusDiv, disabled>>
     ELSE /\ statusDiv' = showError("Please navigate to a Gmail email to use this tool.")
          /\ disabled' = FALSE
          /\ flow' = [flow EXCEPT ![c] = "ended"]
  /\ UNCHANGED <<sections, replies, mail, backgroundVars, toggleVars>>

\* line 163: the query rejects, and so does the handler
TabQueryRejects(c) ==
  /\ flow[c] = "query"
  /\ flow' = [flow EXCEPT ![c] = "thrown"]
  /\ UNCHANGED <<disabled, statusDiv, sections, tab, replies, mail, backgroundVars, toggleVars>>

\* content.js lines 5-61: the listener of the content script, for the
\* message the popup sent to the tab
OnContentMessage(c, request) ==
  /\ flow[c] = "extract"
  /\ IF request.action = "get_email_body"
     THEN /\ replies' = [replies EXCEPT ![c] = Append(@, ContentReply(tab[c].document))]
          /\ flow' = [flow EXCEPT ![c] = "extracted"]
     ELSE /\ replies' = replies
          /\ flow' = [flow EXCEPT ![c] = "unanswered"]
  /\ UNCHANGED <<disabled, statusDiv, sections, tab, mail, backgroundVars, toggleVars>>

\* lines 168-172: no content script answers in the tab, and the callback
\* runs with lastError set
ExtractFails(c) ==
  /\ flow[c] = "extract"
  /\ statusDiv' = showError("Could not communicate with Gmail tab. Make sure an email is open.")
  /\ disabled' = FALSE
  /\ flow' = [flow EXCEPT ![c] = "ended"]
  /\ UNCHANGED <<sections, tab, replies, mail, backgroundVars, toggleVars>>

\* mutation: the message is sent whatever the content script replied
OnExtractResponse_Always(c) ==
  /\ flow[c] = "extracted"
  /\ statusDiv' = showLoading("Email content extracted. Analyzing with AI and rule-based detection...")
  /\ mail' = [mail EXCEPT ![RequestOf(c)] =
                [action |-> "analyze_email", emailBody |-> replies[c][Len(replies[c])].emailBody]]
  /\ pc' = [pc EXCEPT ![RequestOf(c)] = "idle"]
  /\ flow' = [flow EXCEPT ![c] = "analyze"]
  /\ disabled' = disabled
  /\ UNCHANGED <<sections, tab, replies, emailBody, attempt, response, fetches,
                 timers, history, outcome, sent, backend, toggleVars>>

\* lines 167-178 and 204-208: the callback with the content script's reply;
\* with a body it sends analyze_email to the background script
OnExtractResponse(c) ==
  /\ flow[c] = "extracted"
  /\ IF Truthy(replies[c][Len(replies[c])].emailBody)
     THEN /\ statusDiv' = showLoading("Email content extracted. Analyzing with AI and rule-based detection...")
          /\ mail' = [mail EXCEPT ![RequestOf(c)] =
                        [action |-> "analyze_email",
                         emailBody |-> replies[c][Len(replies[c])].emailBody]]
          /\ pc' = [pc EXCEPT ![RequestOf(c)] = "idle"]
          /\ flow' = [flow EXCEPT ![c] = "analyze"]
          /\ disabled' = disabled
     ELSE /\ statusDiv' = showError("Could not extract email body. Make sure an email is open in Gmail.")
          /\ disabled' = FALSE
          /\ flow' = [flow EXCEPT ![c] = "ended"]
          /\ UNCHANGED <<mail, pc>>
  /\ UNCHANGED <<sections, tab, replies, emailBody, attempt, response, fetches,
                 timers, history, outcome, sent, backend, toggleVars>>

\* background.js line 153: the popup's message reaches the listener
MailArrives(r) ==
  /\ mail[r] # NoMail
  /\ OnMessage(r, mail[r])

\* lines 179-184: the message reaches no listener, and the callback runs with
\* lastError set
AnalyzeFails(c) ==
  /\ flow[c] = "analyze"
  /\ pc[RequestOf(c)] = "idle"
  /\ pc' = [pc EXCEPT ![RequestOf(c)] = "none"]
  /\ statusDiv' = showError("Communication failed with background script.")
  /\ disabled' = FALSE
  /\ flow' = [flow EXCEPT ![c] = "ended"]
  /\ UNCHANGED <<sections, tab, replies, mail, emailBody, attempt, response, fetches,
                 timers, history, outcome, sent, backend, toggleVars>>

\* lines 186-203: the callback with the response of the background script; a
\* TypeError in displayAnalysis ends it before line 202
OnAnalysisCallback(c) ==
  LET shows == OnAnalysisResponse(sent[RequestOf(c)][1])
      drawn == displayAnalysis(shows.displayAnalysis[1])
  IN  /\ flow[c] = "analyze"
      /\ pc[RequestOf(c)] = "done"
      /\ IF shows.displayAnalysis = <<>>
         THEN /\ statusDiv' = showError(shows.message)
              /\ sections' = sections
              /\ disabled' = FALSE
              /\ flow' = [flow EXCEPT ![c] = "ended"]
         ELSE /\ statusDiv' = showSuccess(shows.message)
              /\ sections' = drawn.sections
              /\ disabled' = IF drawn.threw THEN disabled ELSE FALSE
              /\ flow' = [flow EXCEPT ![c] = IF drawn.threw THEN "thrown" ELSE "ended"]
      /\ UNCHANGED <<tab, replies, mail, backgroundVars, toggleVars>>

\* the server's answers to a call: an analysis, an analysis after two
\* failures, failures only, and an analysis whose fields are not of the
\* types the popup expects
UntypedPayload ==
  Obj(<<"result">> :> Num(100)
      @@ <<"risk_level">> :> Str(<<"high">>)
      @@ <<"detailed_analysis">> :> Str(<<"Likely phishing.">>)
      @@ <<"security_recommendations">> :> Str(<<"Do not click links">>))

PopupScripts ==
  { Always(Answer(200, Stringify(FullPayload))),
    <<Answer(500, Stringify(BarePayload)), Answer(500, Stringify(BarePayload)),
      Answer(200, Stringify(RulesOnlyPayload))>>,
    Always(Refusal(JSError("TypeError", Lit("Failed to fetch")))),
    Always(Answer(200, Stringify(UntypedPayload))) }

\* the popup is open on some earlier display, no message was sent
InitPopupOpen ==
  /\ InitRequests({})
  /\ backend \in [Req -> PopupScripts]
  /\ \E display \in {AllHidden, AllShown} : InitPopup(display)
  /\ InitSections(Expanded)

NextPopup ==
  \/ \E c \in Click : ClickAnalyze(c)
  \/ \E c \in Click, t \in Tabs \cup {NoTab} : TabQueryResolves(c, t)
  \/ \E c \in Click : TabQueryRejects(c)
  \/ \E c \in Click : OnContentMessage(c, GetEmailBody)
  \/ \E c \in Click : ExtractFails(c)
  \/ \E c \in Click : OnExtractResponse(c)
  \/ \E c \in Click : AnalyzeFails(c)
  \/ \E c \in Click : OnAnalysisCallback(c)
  \/ \E r \in Req : MailArrives(r)
  \/ \E r \in Req : ServerAnswers(r)
  \/ \E r \in Req : ServerRefuses(r)
  \/ \E r \in Req : TextResolves(r)
  \/ \E r \in Req : TimerFires(r)
  \/ \E r \in Req : Respond(r)

SpecPopup == InitPopupOpen /\ [][NextPopup]_vars

----------------------------------------------------------------------------
(* The content script on its own                                           *)

\* what a selector may match: nothing, an element without text, one with a
\* text at the limit, one with a text over it; each selector has its own text
Matched(i) ==
  { NoElement, Element(<<>>), Element(Text(MinLength, selectors[i])),
    Element(Text(MinLength + 1, selectors[i])) }

\* divs: plain ones of three lengths, two of the same length, one at the
\* limit, a longer one that is not rendered, in a toolbar, in a signature
DivKinds ==
  { Div(Text(MinLength, "s"), TRUE, FALSE, FALSE),
    Div(Text(MinLength + 1, "p"), TRUE, FALSE, FALSE),
    Div(Text(MinLength + 2, "q"), TRUE, FALSE, FALSE),
    Div(Text(MinLength + 2, "r"), TRUE, FALSE, FALSE),
    Div(Text(MinLength + 3, "h"), FALSE, FALSE, FALSE),
    Div(Text(MinLength + 3, "t"), TRUE, TRUE, FALSE),
    Div(Text(MinLength + 3, "g"), TRUE, FALSE, TRUE) }

MaxDivs == 2

Documents ==
  { Document([NoMatch EXCEPT ![1] = e1, ![3] = e3, ![7] = e7], divs) :
      e1 \in Matched(1), e3 \in Matched(3), e7 \in Matched(7),
      divs \in UNION { [1..n -> DivKinds] : n \in 0..MaxDivs } }

\* a message is on its way to the content script of a Gmail tab
InitContent ==
  /\ InitRequests({})
  /\ backend = AnyBackend
  /\ disabled = TRUE
  /\ statusDiv = showLoading("Scanning email...")
  /\ sections = AllHidden
  /\ flow = [c \in Click |-> IF c = "c1" THEN "extract" ELSE "none"]
  /\ tab \in { [c \in Click |->
                  IF c = "c1"
                  THEN Tab(Str(<<"https://mail.google.com", "/mail/u/0/#inbox/abc">>), d)
                  ELSE NoTab] : d \in Documents }
  /\ replies = [c \in Click |-> <<>>]
  /\ mail = [r \in Req |-> NoMail]
  /\ InitSections(Expanded)

NextContent == \E c \in Click, request \in ContentMessages : OnContentMessage(c, request)

SpecContent == InitContent /\ [][NextContent]_vars

----------------------------------------------------------------------------
(* The collapsible sections of the popup (popup.js, toggleSection)         *)

\* the most toggleSection calls followed on one section
MaxToggles == 3

\* classList.contains, classList.add, classList.remove on a list of tokens
contains(list, token) == \E i \in DOMAIN list : list[i] = token
add(list, token)      == IF contains(list, token) THEN list ELSE Append(list, token)
remove(list, token)   == SelectSeq(list, LAMBDA t : t # token)

\* mutation: the class of the toggle is left as it is
toggleSection_ContentOnly(sectionName) ==
  LET content == ContentOf(sectionName)
  IN  /\ Len(trail[sectionName]) <= MaxToggles
      /\ IF contains(classList[content], "collapsed")
         THEN /\ classList' = [classList EXCEPT ![content] = remove(@, "collapsed")]
              /\ textContent' = [textContent EXCEPT ![sectionName] = DownTriangle]
         ELSE /\ classList' = [classList EXCEPT ![content] = add(@, "collapsed")]
              /\ textContent' = [textContent EXCEPT ![sectionName] = RightTriangle]
      /\ trail' = [trail EXCEPT ![sectionName] =
                     Append(@, Indicators(classList', textContent', sectionName))]
      /\ UNCHANGED <<backgroundVars, disabled, statusDiv, sections, flow, tab,
                     replies, mail>>

\* lines 2-15: one call of toggleSection
toggleSection(sectionName) ==
  LET content == ContentOf(sectionName)
      toggle  == ToggleOf(sectionName)
  IN  /\ Len(trail[sectionName]) <= MaxToggles
      /\ IF contains(classList[content], "collapsed")
         THEN /\ classList' = [classList EXCEPT ![content] = remove(@, "collapsed"),
                                                ![toggle]  = remove(@, "collapsed")]
              /\ textContent' = [textContent EXCEPT ![sectionName] = DownTriangle]
         ELSE /\ classList' = [classList EXCEPT ![content] = add(@, "collapsed"),
                                                ![toggle]  = add(@, "collapsed")]
              /\ textContent' = [textContent EXCEPT ![sectionName] = RightTriangle]
      /\ trail' = [trail EXCEPT ![sectionName] =
                     Append(@, Indicators(classList', textContent', sectionName))]
      /\ UNCHANGED <<backgroundVars, disabled, statusDiv, sections, flow, tab,
                     replies, mail>>

\* how a section may be written in the popup's page: its content expanded or
\* collapsed, the class before or after its other class, and a toggle whose
\* class and text need not fit the content
Markups ==
  [content : {<<"section-content">>, <<"section-content", "collapsed">>,
              <<"collapsed", "section-content">>},
   toggle  : {<<>>, <<"collapsed">>},
   text    : {DownTriangle, RightTriangle, ""}]

\* the popup is open, its sections as the page wrote them
InitToggle ==
  /\ InitRequests({})
  /\ backend = AnyBackend
  /\ InitPopup(AllHidden)
  /\ \E loaded \in [SectionNames -> Markups] : InitSections(loaded)

NextToggle == \E sectionName \in SectionNames : toggleSection(sectionName)

SpecToggle == InitToggle /\ [][NextToggle]_vars

----------------------------------------------------------------------------
(* Vocabulary of the properties                                            *)

Last(seq) == seq[Len(seq)]

\* the handler of r took an analyze_email message
Handled(r) == pc[r] \notin {"none", "idle", "ignored"}

\* analyzeWithRetry of r has resolved or rejected
Settled(r) == pc[r] \in {"settled", "done"} /\ outcome[r].state # "pending"

Succeeded(r) ==
  /\ Settled(r)
  /\ outcome[r].state = "fulfilled"
  /\ "success" \in DOMAIN outcome[r].value

\* the failure kinds of the specification, read off the error message
KindOf(error) ==
  CASE error = TimedOutError                    -> "Timeout"
    [] error = CouldNotConnectError             -> "Network"
    [] error.name = "Error" /\ error.message.fmt = "HTTP"
                                                -> "ServerError"
    [] error.name = "Error" /\ error.message.fmt = "Invalid JSON response"
                                                -> "MalformedResponse"
    [] OTHER                                    -> "Unclassified"

FailedAs(r, kind) ==
  /\ Settled(r)
  /\ outcome[r].state = "rejected"
  /\ KindOf(outcome[r].error) = kind
  /\ pc[r] = "done" => sent[r] = <<FailureResponse(outcome[r].error)>>

\* what an attempt met, by class
Is500(h)         == h.cause = "none" /\ h.parsed /\ h.status = 500
IsOtherNotOk(h)  == h.cause = "none" /\ h.parsed /\ ~Ok(h.status) /\ h.status # 500
IsUnparseable(h) == h.cause = "none" /\ ~h.parsed
Is2xxParsed(h)   == h.cause = "none" /\ h.parsed /\ Ok(h.status)
IsTransport(h)   == h.cause # "none"

----------------------------------------------------------------------------
(* C1: an analyze_email request whose emailBody is empty or absent is      *)
(* answered with the no-content failure, and neither a fetch nor a delay   *)
(* timer is ever started for it.                                           *)
C1_NoContent ==
  \A r \in Req :
    (Handled(r) /\ ~Truthy(emailBody[r]))
      => /\ pc[r] = "done"
         /\ sent[r] = <<NoBodyResponse>>
         /\ fetches[r] = <<>>
         /\ timers[r] = <<>>
         /\ attempt[r] = 0

C1_Witness ==
  \E r \in Req : pc[r] = "done" /\ emailBody[r] = Str(<<>>) /\ sent[r] = <<NoBodyResponse>>

(* C2: whatever the attempts meet, one analyzeWithRetry call issues at     *)
(* most retryCount network calls.                                          *)
C2_AttemptBudget ==
  \A r \in Req : Len(fetches[r]) <= retryCount /\ attempt[r] <= retryCount

C2_Witness ==
  \E r \in Req :
    /\ pc[r] = "done"
    /\ Len(fetches[r]) = retryCount
    /\ \E i \in DOMAIN history[r] : IsTransport(history[r][i])
    /\ \E i \in DOMAIN history[r] : history[r][i].threw

(* C3: when attempts 1..k-1 each met a status 500 or an unparseable body   *)
(* and attempt k met a 2xx status with a parseable body, the call returns  *)
(* Success after exactly k network calls and k-1 delays.                   *)
C3_SuccessAfterTransient ==
  \A r \in Req :
    \A k \in DOMAIN history[r] :
      ( /\ Is2xxParsed(history[r][k])
        /\ \A i \in 1..(k - 1) : Is500(history[r][i]) \/ IsUnparseable(history[r][i]) )
      => /\ Succeeded(r)
         /\ Len(history[r]) = k
         /\ Len(fetches[r]) = k
         /\ timers[r] = [i \in 1..(k - 1) |-> delay]

(* C4: against a server that answers 500 with a parseable body on every    *)
(* attempt, the call ends in a ServerError failure after 3 attempts and    *)
(* exactly 3 network calls.                                                *)
C4_Always500 ==
  \A r \in Req :
    (Settled(r) /\ \A i \in DOMAIN history[r] : Is500(history[r][i]))
      => /\ FailedAs(r, "ServerError")
         /\ outcome[r].error.message.status = 500
         /\ attempt[r] = 3
         /\ Len(fetches[r]) = 3
         /\ Len(history[r]) = 3

C4_Witness ==
  \E r \in Req :
    /\ pc[r] = "done"
    /\ Len(history[r]) = 3
    /\ \A i \in DOMAIN history[r] : Is500(history[r][i])

(* C5: when the body is not valid JSON on every attempt, the call waits    *)
(* the fixed delay between attempts while attempts remain and ends, on the *)
(* last attempt, in a MalformedResponse failure whose message carries the  *)
(* first 100 characters of the raw body.                                   *)
C5_AlwaysMalformed ==
  \A r \in Req :
    (Settled(r) /\ \A i \in DOMAIN history[r] : IsUnparseable(history[r][i]))
      => LET snippet == outcome[r].error.message.text
             raw     == response[r].text
         IN  /\ FailedAs(r, "MalformedResponse")
             /\ Len(history[r]) = retryCount
             /\ Len(fetches[r]) = retryCount
             /\ timers[r] = <<delay, delay>>
             /\ Len(snippet) = (IF Len(raw) < 100 THEN Len(raw) ELSE 100)
             /\ \A i \in DOMAIN snippet : snippet[i] = raw[i]

C5_Witness ==
  \E r \in Req :
    /\ pc[r] = "done"
    /\ \A i \in DOMAIN history[r] : IsUnparseable(history[r][i])
    /\ Len(response[r].text) > 100
    /\ Len(outcome[r].error.message.text) = 100

(* C6: after a transport-level failure (no connection, or the per-attempt  *)
(* timeout) on an attempt that is not the last, the call waits the fixed   *)
(* delay and then issues the next attempt; the failure does not end it.    *)
C6_TransportRetried ==
  \A r \in Req :
    \A k \in DOMAIN history[r] :
      (k < retryCount /\ IsTransport(history[r][k]))
        => /\ Len(timers[r]) >= k
           /\ timers[r][k] = delay
           /\ pc[r] = "timer" \/ Len(fetches[r]) > k

(* C7: a parseable non-2xx response whose status is not 500 ends the call  *)
(* in a ServerError failure at that attempt, with no delay and no further  *)
(* network call.                                                           *)
C7_OtherStatusTerminal ==
  \A r \in Req :
    \A k \in DOMAIN history[r] :
      IsOtherNotOk(history[r][k])
        => /\ FailedAs(r, "ServerError")
           /\ Len(history[r]) = k
           /\ Len(fetches[r]) = k
           /\ Len(timers[r]) = k - 1

(* C8: a 2xx response whose body parses always makes the call return       *)
(* Success at that attempt, whichever optional fields are absent.          *)
C8_ParsedOkSucceeds ==
  \A r \in Req :
    \A k \in DOMAIN history[r] :
      Is2xxParsed(history[r][k])
        => /\ Succeeded(r)
           /\ Len(history[r]) = k
           /\ Len(fetches[r]) = k

(* C9: a call whose final attempt exceeded the per-attempt timeout ends in *)
(* the Timeout failure, and no network call follows it.                    *)
C9_FinalTimeout ==
  \A r \in Req :
    (Settled(r) /\ history[r] # <<>> /\ Last(history[r]).cause = "timeout")
      => /\ FailedAs(r, "Timeout")
         /\ Len(fetches[r]) = Len(history[r])

(* C10: a call that ends on a transport-level failure ends in Timeout when *)
(* the cause was the per-attempt timeout and in Network otherwise.         *)
C10_TransportClassified ==
  \A r \in Req :
    (Settled(r) /\ history[r] # <<>> /\ IsTransport(Last(history[r])))
      => FailedAs(r, IF Last(history[r]).cause = "timeout" THEN "Timeout" ELSE "Network")

----------------------------------------------------------------------------
(* The success value against the response it was built from                *)

\* the parsed body of the response the last attempt of r read
ResponseData(r) == JSONparse(response[r].text).val

\* the last attempt of r read a parseable body with a 2xx status
MetParsedOk(r) ==
  /\ Settled(r)
  /\ history[r] # <<>>
  /\ Is2xxParsed(Last(history[r]))

Lacks(v, name) == Get(v, name) = Undefined

(* C11: a 2xx response whose JSON body lacks risk_score and risk_level     *)
(* yields a Success whose data has risk_score = 0 and risk_level =         *)
(* "unknown", never a failure.                                             *)
C11_MissingRiskDefaults ==
  \A r \in Req :
    ( /\ MetParsedOk(r)
      /\ Lacks(ResponseData(r), "risk_score")
      /\ Lacks(ResponseData(r), "risk_level") )
    => /\ Succeeded(r)
       /\ outcome[r].value.data.risk_score = Num(0)
       /\ outcome[r].value.data.risk_level = Str(<<"unknown">>)

(* C12: in every Success, risk_score lies in [0, 1]: a missing score       *)
(* becomes 0 and a score below 0 or above 1 is clamped to the range.       *)
(* Scores are held in hundredths, so the range is 0..100.                  *)
C12_RiskScoreInRange ==
  \A r \in Req :
    Succeeded(r)
    => /\ outcome[r].value.data.risk_score.k = "number"
       /\ outcome[r].value.data.risk_score.n \in 0..100
       /\ outcome[r].value.riskScore = outcome[r].value.data.risk_score

\* the fields of the response the success value carries over
CarriedFields ==
  {"risk_level", "risk_score", "result", "features", "suspicious_elements",
   "security_recommendations"}

\* the response has every field of the shape
FullShape(v) == v.k = "object" /\ \A name \in CarriedFields : ~Lacks(v, name)

\* the field of the structured data, by name
DataField(data, name) ==
  CASE name = "risk_level"               -> data.risk_level
    [] name = "risk_score"               -> data.risk_score
    [] name = "result"                   -> data.result
    [] name = "features"                 -> data.features
    [] name = "suspicious_elements"      -> data.suspicious_elements
    [] name = "security_recommendations" -> data.security_recommendations

(* C13: for a 2xx response carrying every field of the expected shape, the *)
(* Success data's risk_level, risk_score, result, features,                *)
(* suspicious_elements and security_recommendations each equal the         *)
(* corresponding response field, unchanged.                                *)
C13_FieldsCarriedOver ==
  \A r \in Req :
    Succeeded(r) /\ FullShape(ResponseData(r))
    => \A name \in CarriedFields :
         DataField(outcome[r].value.data, name) = Get(ResponseData(r), name)

\* a response with every field and no empty one was carried over and sent
C13_Witness ==
  \E r \in Req :
    /\ Succeeded(r)
    /\ pc[r] = "done"
    /\ FullShape(ResponseData(r))
    /\ \A name \in CarriedFields : Truthy(Get(ResponseData(r), name))
    /\ Get(ResponseData(r), "features") # EmptyObject
    /\ outcome[r].value.data.result = Get(ResponseData(r), "result")

----------------------------------------------------------------------------
(* Two calls side by side                                                  *)

\* the message of r was analysed and answered
Answered(r) == pc[r] = "done" /\ HasBody(emailBody[r])

\* everything the call of r did and returned
Course(r) ==
  [ outcome |-> outcome[r], sent |-> sent[r], attempts |-> attempt[r],
    calls |-> Len(fetches[r]), fetches |-> fetches[r], timers |-> timers[r],
    history |-> history[r] ]

(* C14: the result of analyzeWithRetry is a function of the input text and *)
(* the sequence of backend outcomes only: two calls with the same text     *)
(* against the same deterministic backend return structurally identical    *)
(* results (same kind, same fields, same number of attempts), and          *)
(* ai_analysis and technical_analysis depend on nothing but the response   *)
(* payload.                                                                *)
C14_Deterministic ==
  \A p \in Req, q \in Req :
    /\ ( /\ Answered(p) /\ Answered(q)
         /\ emailBody[p] = emailBody[q]
         /\ backend[p] = backend[q] )
       => Course(p) = Course(q)
    /\ ( /\ Succeeded(p) /\ Succeeded(q)
         /\ ResponseData(p) = ResponseData(q) )
       => /\ outcome[p].value.data.ai_analysis = outcome[q].value.data.ai_analysis
          /\ outcome[p].value.data.technical_analysis
               = outcome[q].value.data.technical_analysis

\* two calls with the same text met the same answers, a retry among them
C14_Witness ==
  /\ Answered("r1") /\ Answered("r2")
  /\ emailBody["r1"] = emailBody["r2"]
  /\ backend["r1"] = backend["r2"]
  /\ Len(fetches["r1"]) > 1
  /\ Succeeded("r1")
  /\ sent["r1"] = sent["r2"]

RECURSIVE AloneFrom(_, _)

\* what a call does when it is the only one in the service worker: the step
\* that ends it and the number of fetches it makes, from attempt a on
AloneFrom(script, a) ==
  IF a > retryCount THEN [step |-> Return(Undefined), calls |-> a - 1]
  ELSE LET answer == script[a]
           step   == IF answer.kind = "response"
                     THEN AfterText(answer.status, answer.text, a)
                     ELSE Catch(answer.error, a)
       IN  IF step.do = "wait" THEN AloneFrom(script, a + 1)
           ELSE [step |-> step, calls |-> a]

\* the argument of sendResponse for a call that ended with this step
ResponseOf(step) ==
  IF step.do = "return" THEN step.value ELSE FailureResponse(step.error)

(* C15: two analyze_email requests handled concurrently are isolated under *)
(* every interleaving of fetch completions and delay timers: each has its  *)
(* own attempt counter and its own text, is retried independently of the   *)
(* other, and each sendResponse receives the result of its own attempts.   *)
C15_Isolated ==
  \A r \in Req :
    /\ \A i \in DOMAIN fetches[r] : fetches[r][i] = FetchCall(emailBody[r])
    /\ pc[r] \in {"fetch", "text", "timer"}
         => attempt[r] = Len(fetches[r]) /\ attempt[r] = Len(history[r]) +
                                             (IF pc[r] = "timer" THEN 0 ELSE 1)
    /\ Len(timers[r]) <= Len(history[r])
    /\ Answered(r)
         => /\ sent[r] = <<ResponseOf(AloneFrom(backend[r], 1).step)>>
            /\ Len(fetches[r]) = AloneFrom(backend[r], 1).calls

\* two calls with different texts and different servers were answered, one
\* after a single fetch and the other after retryCount of them
C15_Witness ==
  /\ Answered("r1") /\ Answered("r2")
  /\ emailBody["r1"] # emailBody["r2"]
  /\ backend["r1"] # backend["r2"]
  /\ Len(fetches["r1"]) = 1
  /\ Len(fetches["r2"]) = retryCount
  /\ Succeeded("r2")
  /\ ~Succeeded("r1")

----------------------------------------------------------------------------
(* Termination                                                             *)

\* analyzeWithRetry of r was called and has not settled
Running(r) == pc[r] \in {"fetch", "text", "timer"}

(* C16: every analyzeWithRetry call eventually resolves with a Success or  *)
(* rejects with a failure, provided each network call completes or is cut  *)
(* off by its per-attempt timeout: it never blocks indefinitely and never  *)
(* loops forever.                                                          *)
C16_Terminates ==
  \A r \in Req :
    Running(r) ~> ( /\ Settled(r)
                    /\ \/ Succeeded(r)
                       \/ outcome[r].state = "rejected" )

\* a call settles after every attempt it is given has failed
C16_Witness ==
  \E r \in Req :
    /\ Settled(r)
    /\ outcome[r].state = "rejected"
    /\ Len(fetches[r]) = retryCount
    /\ Len(timers[r]) = retryCount - 1

----------------------------------------------------------------------------
(* After the response                                                      *)

\* sendResponse was called for r
ResponseSent(r) == sent[r] # <<>>

\* every fetch r issued has completed and every timer r started has fired
NothingOutstanding(r) ==
  /\ ~Running(r)
  /\ Len(history[r]) = Len(fetches[r])
  /\ Len(timers[r]) = (IF attempt[r] = 0 THEN 0 ELSE attempt[r] - 1)

(* C17: once a call has resolved or rejected and its response has been     *)
(* sent, no network call and no delay timer belonging to that call is      *)
(* outstanding or started afterwards.                                      *)
C17_QuietAfterResponse ==
  /\ [](\A r \in Req : ResponseSent(r) => NothingOutstanding(r))
  /\ [][\A r \in Req :
          ResponseSent(r) => /\ fetches'[r] = fetches[r]
                             /\ timers'[r] = timers[r]
                             /\ ~Running(r)']_vars

\* the response went out after three fetches and two timers
C17_Witness ==
  \E r \in Req :
    /\ ResponseSent(r)
    /\ pc[r] = "done"
    /\ Len(fetches[r]) = retryCount
    /\ Len(timers[r]) = retryCount - 1

----------------------------------------------------------------------------
(* The shape of a response                                                 *)

IsSuccessResponse(resp) ==
  /\ {"success", "data"} \subseteq DOMAIN resp
  /\ resp.success = TRUE
  /\ "error" \notin DOMAIN resp

IsFailureResponse(resp) ==
  /\ "error" \in DOMAIN resp
  /\ DOMAIN resp \cap {"success", "data", "report"} = {}

(* C18: every response delivered for analyze_email is either a success     *)
(* (success = true with data) or a failure (an error field), never both    *)
(* and never a degraded result in place of a failure; the popup renders a  *)
(* failure response through showError and never through displayAnalysis.   *)
C18_SuccessOrFailure ==
  \A r \in Req : \A i \in DOMAIN sent[r] :
    LET resp == sent[r][i] IN
    /\ IsSuccessResponse(resp) # IsFailureResponse(resp)
    /\ outcome[r].state = "rejected" => IsFailureResponse(resp)
    /\ ~HasBody(emailBody[r]) => IsFailureResponse(resp)
    /\ IsSuccessResponse(resp) => Succeeded(r) /\ resp = outcome[r].value
    /\ IsFailureResponse(resp)
         => /\ OnAnalysisResponse(resp).status = "showError"
            /\ OnAnalysisResponse(resp).displayAnalysis = <<>>
    /\ IsSuccessResponse(resp)
         => OnAnalysisResponse(resp).displayAnalysis = <<resp>>

\* a rejected call was answered with a failure, which the popup shows as an
\* error
C18_Witness ==
  \E r \in Req :
    /\ pc[r] = "done"
    /\ outcome[r].state = "rejected"
    /\ Len(sent[r]) = 1
    /\ IsFailureResponse(sent[r][1])
    /\ OnAnalysisResponse(sent[r][1]).status = "showError"

----------------------------------------------------------------------------
(* The order of extractAIAnalysis                                          *)

\* the text of a field when it is a string, and the empty text otherwise
TextOf(v, name) == IF Get(v, name).k = "string" THEN Get(v, name).s ELSE <<>>

\* the AI section the result text carries under its label, trimmed
LabelledSection(v) ==
  LET m == MatchAI(TextOf(v, "result"), {"[clipboard]", "[check]", "[siren]"})
  IN  IF m.matched THEN Trim(m.group) ELSE <<>>

MentionsBlocked(v) ==
  \/ Includes(TextOf(v, "result"), "AI analysis was blocked")
  \/ Includes(TextOf(v, "result"), "safety filter")

\* the three steps that follow detailed_analysis
FromResult(v) ==
  IF LabelledSection(v) # <<>> THEN LabelledSection(v)
  ELSE IF MentionsBlocked(v) THEN BlockedMessage
  ELSE NotAvailableMessage

AIRan(v) == Truthy(Get(Get(v, "features"), "has_ai_analysis"))

\* the summary of the AI features: the assessment in capitals and the
\* confidence lead it
IsFeatureSummary(text, v) ==
  /\ Len(text) >= 3
  /\ text[1] = "AI Risk Assessment: "
  /\ <<text[2]>> = ToUpperCase(TextOf(Get(v, "features"), "ai_risk_assessment"))
  /\ text \notin {BlockedMessage, NotAvailableMessage}
  /\ text # LabelledSection(v)

(* C19 as stated: extractAIAnalysis follows a strict priority order: a     *)
(* non-blank detailed_analysis; else the labelled AI section of the result *)
(* string; else the blocked message when the result mentions that AI       *)
(* analysis was blocked or safety-filtered; else the not-available         *)
(* message.  No other branch pre-empts a later step of this order.         *)
C19_StrictOrder ==
  \A r \in Req :
    Succeeded(r)
    => outcome[r].value.data.ai_analysis =
         Str(IF Trim(TextOf(ResponseData(r), "detailed_analysis")) # <<>>
             THEN Trim(TextOf(ResponseData(r), "detailed_analysis"))
             ELSE FromResult(ResponseData(r)))

(* C19 amended: a non-blank detailed_analysis comes first; else, when      *)
(* features.has_ai_analysis is set, the summary built from the AI features *)
(* is returned and the three later steps are not taken; else the labelled  *)
(* AI section of the result, else the blocked message, else the            *)
(* not-available message.                                                  *)
C19_OrderWithFeatures ==
  \A r \in Req :
    Succeeded(r)
    => LET v  == ResponseData(r)
           ai == outcome[r].value.data.ai_analysis
       IN  /\ ai.k = "string"
           /\ IF Trim(TextOf(v, "detailed_analysis")) # <<>>
              THEN ai.s = Trim(TextOf(v, "detailed_analysis"))
              ELSE IF AIRan(v) THEN IsFeatureSummary(ai.s, v)
              ELSE ai.s = FromResult(v)

\* the features branch answered for a response whose result has no labelled
\* section and mentions the safety filter
C19_Witness ==
  \E r \in Req :
    /\ Succeeded(r)
    /\ Trim(TextOf(ResponseData(r), "detailed_analysis")) = <<>>
    /\ AIRan(ResponseData(r))
    /\ LabelledSection(ResponseData(r)) = <<>>
    /\ MentionsBlocked(ResponseData(r))
    /\ IsFeatureSummary(outcome[r].value.data.ai_analysis.s, ResponseData(r))

----------------------------------------------------------------------------
(* The features extractTechnicalAnalysis names                             *)

Entries(table) == {table[i] : i \in DOMAIN table}

\* the flag is flagged true in the features of the response
FlaggedTrue(v, flag) == Truthy(Get(Get(v, "features"), flag))

\* the text names the feature: by its label for a feature of the two tables,
\* by its own name, bare or with has_ stripped, for any other
NamesFeature(text, flag) ==
  \/ \E e \in Entries(AIFeatureTable) \cup Entries(RuleFeatureTable) :
       e[1] = flag /\ Includes(text, e[2])
  \/ Includes(text, flag)
  \/ flag = "has_attachment" /\ (Includes(text, "attachment") \/ Includes(text, "Attachment"))

\* the flags the responses of the model carry or leave out
FlagsOfInterest ==
  {e[1] : e \in Entries(AIFeatureTable) \cup Entries(RuleFeatureTable)}
    \cup {"has_attachment"}

HasDedicated(v) == ~Lacks(v, "technical_analysis")

----------------------------------------------------------------------------
(* The order of the checks on a response, and the waits between attempts   *)

\* attempt k of r was followed by one wait and, once it was over, a fetch
Retried(r, k) ==
  /\ Len(timers[r]) >= k
  /\ timers[r][k] = delay
  /\ (pc[r] = "timer" /\ Len(fetches[r]) = k) \/ Len(fetches[r]) > k

(* C22: the JSON parse check precedes the status check: on the final       *)
(* attempt a response with an unparseable body ends in MalformedResponse   *)
(* even when its HTTP status is non-2xx, and on an earlier attempt an      *)
(* unparseable body is retried even when its status is 2xx.                *)
C22_ParseBeforeStatus ==
  \A r \in Req : \A k \in DOMAIN history[r] :
    IsUnparseable(history[r][k])
    => /\ k < retryCount => Retried(r, k)
       /\ k = retryCount => FailedAs(r, "MalformedResponse")

\* an unparseable 200 on the first attempt was retried and an unparseable 500
\* on the last one ended the call as a malformed response
C22_Witness ==
  \E r \in Req :
    /\ Len(history[r]) = retryCount
    /\ IsUnparseable(history[r][1]) /\ Ok(history[r][1].status)
    /\ IsUnparseable(history[r][retryCount]) /\ history[r][retryCount].status = 500
    /\ FailedAs(r, "MalformedResponse")
    /\ pc[r] = "done"

(* C23: the inter-attempt delay is fixed: every wait between two           *)
(* consecutive attempts of one call uses the same delay value (1000 ms),   *)
(* exactly one wait separates consecutive attempts, and no wait occurs     *)
(* before the first attempt or after the final attempt, whose failure is   *)
(* returned immediately.                                                   *)
C23_FixedDelay ==
  \A r \in Req :
    /\ \A i \in DOMAIN timers[r] : timers[r][i] = 1000
    /\ fetches[r] = <<>> => timers[r] = <<>>
    /\ fetches[r] # <<>>
         => Len(timers[r]) = Len(fetches[r]) - (IF pc[r] = "timer" THEN 0 ELSE 1)
    /\ pc[r] = "timer" => Len(history[r]) = Len(fetches[r])
    /\ Len(timers[r]) <= retryCount - 1
    /\ Len(history[r]) = retryCount => Settled(r) /\ outcome[r].state # "pending"

\* three attempts, two waits of the same length, and the last failure returned
C23_Witness ==
  \E r \in Req :
    /\ Len(fetches[r]) = retryCount
    /\ timers[r] = <<1000, 1000>>
    /\ Settled(r)
    /\ outcome[r].state = "rejected"

(* C24: the attempts of one analyzeWithRetry call are strictly sequential: *)
(* attempt k+1 is issued only after attempt k has completed (response read *)
(* or failure raised) and the delay has elapsed, so one call never has two *)
(* network calls in flight, and the number of network calls issued always  *)
(* equals the current attempt number.                                      *)
C24_Sequential ==
  /\ [](\A r \in Req :
          /\ Len(fetches[r]) = attempt[r]
          /\ Len(fetches[r]) - Len(history[r]) =
               (IF pc[r] \in {"fetch", "text"} THEN 1 ELSE 0))
  /\ [][\A r \in Req :
          fetches'[r] # fetches[r]
          => /\ fetches'[r] = Append(fetches[r], Last(fetches'[r]))
             /\ Len(history[r]) = Len(fetches[r])
             /\ Len(timers[r]) = Len(fetches[r])
             /\ fetches[r] # <<>> => pc[r] = "timer"]_vars

\* the third fetch of a call is in flight after two completed attempts and two
\* elapsed delays
C24_Witness ==
  \E r \in Req :
    /\ pc[r] = "fetch"
    /\ attempt[r] = retryCount
    /\ Len(fetches[r]) = retryCount
    /\ Len(history[r]) = retryCount - 1
    /\ Len(timers[r]) = retryCount - 1

----------------------------------------------------------------------------
(* One response per message                                                *)

(* C25: for every analyze_email message the background handler invokes     *)
(* sendResponse exactly once: synchronously with the no-content error when *)
(* emailBody is empty, otherwise once after analyzeWithRetry settles; with *)
(* the default retryCount = 3 the loop never falls through, so the         *)
(* response is never undefined.                                            *)
C25_RespondsOnce ==
  /\ [](\A r \in Req :
          /\ Len(sent[r]) <= 1
          /\ \A i \in DOMAIN sent[r] : sent[r][i] # Undefined
          /\ Handled(r) /\ ~HasBody(emailBody[r])
               => sent[r] = <<NoBodyResponse>> /\ outcome[r] = Pending
          /\ Handled(r) /\ HasBody(emailBody[r]) /\ ResponseSent(r)
               => Settled(r) /\ pc[r] = "done"
          /\ outcome[r].state = "fulfilled" => outcome[r].value # Undefined
          /\ pc[r] = "done" => Len(sent[r]) = 1)
  /\ \A r \in Req : Handled(r) ~> (pc[r] = "done" /\ Len(sent[r]) = 1)
  /\ [][\A r \in Req : ResponseSent(r) => sent'[r] = sent[r]]_vars

\* one response went out after the third attempt of a call, and nothing else
C25_Witness ==
  \E r \in Req :
    /\ pc[r] = "done"
    /\ HasBody(emailBody[r])
    /\ Len(history[r]) = retryCount
    /\ Len(sent[r]) = 1
    /\ Succeeded(r)
    /\ sent[r][1] = outcome[r].value

(* C29: every attempt of one analyzeWithRetry call sends the same request: *)
(* a POST whose body is {"text": emailBody} with the emailBody of the      *)
(* originating message, unchanged across retries and never mixed with the  *)
(* text of another request.                                                *)
C29_SameRequest ==
  \A r \in Req : \A i \in DOMAIN fetches[r] :
    /\ fetches[r][i].method = "POST"
    /\ fetches[r][i].url = "http://localhost:8000/analyze_text"
    /\ JSONparse(fetches[r][i].body) =
         [ok |-> TRUE, val |-> Obj(<<"text">> :> emailBody[r])]
    /\ fetches[r][i] = fetches[r][1]

\* both calls were retried and their texts differ
C29_Witness ==
  /\ Len(fetches["r1"]) = retryCount
  /\ Len(fetches["r2"]) = retryCount
  /\ emailBody["r1"] # emailBody["r2"]
  /\ fetches["r1"][retryCount] # fetches["r2"][retryCount]

\* the click handler of c, or one of its callbacks, is still to run
Handling(c) == flow[c] \in {"query", "extract", "extracted", "analyze"}

\* the analyze_email request of r is with the background script
InFlight(r) == pc[r] \in {"idle", "fetch", "text", "timer", "settled"}

(* C21: within one popup at most one analyze_email request is in flight at *)
(* any time: from a click on the analyze button until that click's flow    *)
(* reaches a terminal outcome the button is disabled, so a second click     *)
(* cannot start an overlapping request.                                     *)
C21_OneInFlight ==
  /\ \A c \in Click : Handling(c) => disabled
  /\ Cardinality({c \in Click : Handling(c)}) <= 1
  /\ Cardinality({r \in Req : InFlight(r)}) <= 1
  /\ \A c \in Click : InFlight(RequestOf(c)) => flow[c] = "analyze"

\* the request of the second click is being fetched after the first click's
\* analysis was shown
C21_Witness ==
  /\ flow["c1"] = "ended"
  /\ sent["r1"] # <<>>
  /\ flow["c2"] = "analyze"
  /\ pc["r2"] = "fetch"
  /\ disabled

\* the handler of click c and its callbacks have run, to the end or to a throw
Over(c) == flow[c] \in {"ended", "thrown"}

(* C26: every path of the click handler that disables the analyze button   *)
(* eventually re-enables it: after a non-Gmail or missing tab, a tab        *)
(* without a readable url, a rejected tab query, a content-script           *)
(* communication error, an empty email body, a background communication     *)
(* error, a failure response and a success response alike, the button ends  *)
(* enabled.                                                                 *)
C26_ButtonReenabled ==
  \A c \in Click : Over(c) => (~disabled \/ \E d \in Click : Handling(d))

\* the handler of click c found the active tab to be a Gmail tab: there is a
\* tab and its url begins with https://mail.google.com
FoundGmail(c) ==
  /\ tab[c] # NoTab
  /\ tab[c].url.k = "string"
  /\ startsWith(tab[c].url.s, <<"https://mail.google.com">>)

\* the content script replied to click c with a body that is not empty
GotBody(c) ==
  /\ replies[c] # <<>>
  /\ replies[c][1].emailBody.k = "string"
  /\ replies[c][1].emailBody.s # <<>>

(* C27: the popup sends analyze_email to the background script only after  *)
(* the active tab was found to be a Gmail tab and the content script        *)
(* replied with a non-empty emailBody; when the tab is not Gmail, the       *)
(* content script cannot be reached, or emailBody is null or empty, no      *)
(* analyze_email message is sent and therefore no network call is made.     *)
C27_SendsOnlyWithBody ==
  \A c \in Click :
    /\ mail[RequestOf(c)] # NoMail =>
         /\ FoundGmail(c)
         /\ GotBody(c)
         /\ mail[RequestOf(c)] =
              [action |-> "analyze_email", emailBody |-> replies[c][1].emailBody]
    /\ (~FoundGmail(c) \/ ~GotBody(c)) =>
         /\ mail[RequestOf(c)] = NoMail
         /\ pc[RequestOf(c)] = "none"
         /\ fetches[RequestOf(c)] = <<>>
    /\ fetches[RequestOf(c)] # <<>> => mail[RequestOf(c)] # NoMail

\* the first click found no body and sent nothing, the second click's body
\* is being fetched
C27_Witness ==
  /\ flow["c1"] = "ended"
  /\ FoundGmail("c1")
  /\ replies["c1"] = <<[emailBody |-> Null]>>
  /\ mail["r1"] = NoMail
  /\ GotBody("c2")
  /\ mail["r2"] # NoMail
  /\ fetches["r2"] # <<>>

\* some result section is on display
SomeShown(display) == \E s \in SectionIds : display[s] # "none"

(* C28: whenever the popup's status shows an error for the current click,  *)
(* the summary, AI and rule sections are all hidden: results of an earlier  *)
(* analysis are hidden at the start of each click and are shown again only  *)
(* by a success response.                                                   *)
C28_ErrorHidesResults ==
  /\ [](statusDiv.shown = "error" => ~SomeShown(sections))
  /\ [][\A c \in Click : (flow[c] = "none" /\ flow'[c] # "none") => ~SomeShown(sections')]_vars
  /\ [][(sections' # sections /\ SomeShown(sections')) =>
          \E c \in Click :
            /\ flow[c] = "analyze"
            /\ flow'[c] # "analyze"
            /\ IsSuccessResponse(sent[RequestOf(c)][1])
            /\ statusDiv'.shown = "success"]_vars

\* the first click showed an analysis, the second ended in an error with the
\* sections hidden
C28_Witness ==
  /\ flow["c1"] = "ended"
  /\ sent["r1"] # <<>>
  /\ IsSuccessResponse(sent["r1"][1])
  /\ flow["c2"] = "ended"
  /\ statusDiv.shown = "error"
  /\ ~SomeShown(sections)

\* the selectors whose element has a text longer than 50 characters
Matching(document) ==
  { i \in DOMAIN selectors :
      /\ document.querySelector[i].found
      /\ Len(document.querySelector[i].innerText) > MinLength }

\* the visible text blocks: rendered divs with a text longer than 50
\* characters
Visible(document) ==
  { j \in DOMAIN document.allDivs :
      /\ document.allDivs[j].rendered
      /\ Len(document.allDivs[j].innerText) > MinLength }

\* the visible text blocks outside toolbars and signatures
Eligible(document) ==
  { j \in Visible(document) :
      ~document.allDivs[j].toolbar /\ ~document.allDivs[j].signature }

\* j is a longest block of `blocks`
Largest(document, blocks, j) ==
  /\ j \in blocks
  /\ \A k \in blocks :
       Len(document.allDivs[k].innerText) <= Len(document.allDivs[j].innerText)

\* the least element of a set of indices
Least(indices) == CHOOSE i \in indices : \A k \in indices : i <= k

\* the content script has answered the message of click c
Replied(c) == flow[c] = "extracted"

\* one reply to a get_email_body message, none to another and none before
AnswersOnce(c) == Len(replies[c]) = (IF Replied(c) THEN 1 ELSE 0)

(* C30, as stated: the content script answers each get_email_body message  *)
(* exactly once: it tries its selectors in the listed order and returns the *)
(* text of the first one whose text is longer than 50 characters, falls     *)
(* back to the largest visible text block only when no selector matched,    *)
(* and replies with emailBody = null when nothing was found.                *)
C30_LargestVisible ==
  \A c \in Click :
    /\ AnswersOnce(c)
    /\ Replied(c) =>
         LET document == tab[c].document
         IN  IF Matching(document) # {}
             THEN replies[c][1] =
                    [emailBody |->
                       Str(document.querySelector[Least(Matching(document))].innerText)]
             ELSE IF Visible(document) # {}
             THEN \E j \in Visible(document) :
                    /\ Largest(document, Visible(document), j)
                    /\ replies[c][1] = [emailBody |-> Str(document.allDivs[j].innerText)]
             ELSE replies[c][1] = [emailBody |-> Null]

(* C30, amended: as above, but the fallback is the largest visible text    *)
(* block outside toolbars and signatures, the first of them in document     *)
(* order when several are equally long, and the reply is null when there    *)
(* is none.                                                                 *)
C30_LargestEligible ==
  \A c \in Click :
    /\ AnswersOnce(c)
    /\ Replied(c) =>
         LET document == tab[c].document
             longest  == { j \in Eligible(document) :
                             Largest(document, Eligible(document), j) }
         IN  IF Matching(document) # {}
             THEN replies[c][1] =
                    [emailBody |->
                       Str(document.querySelector[Least(Matching(document))].innerText)]
             ELSE IF Eligible(document) # {}
             THEN replies[c][1] =
                    [emailBody |-> Str(document.allDivs[Least(longest)].innerText)]
             ELSE replies[c][1] = [emailBody |-> Null]

\* no selector matched, and the reply is a block shorter than a visible block
\* of a toolbar or a signature
C30_Witness ==
  \E c \in Click :
    /\ Replied(c)
    /\ Matching(tab[c].document) = {}
    /\ replies[c][1].emailBody # Null
    /\ \E j \in Visible(tab[c].document) \ Eligible(tab[c].document) :
         Len(tab[c].document.allDivs[j].innerText) > Len(replies[c][1].emailBody.s)

\* the three indicators of a section agree: all collapsed, or all expanded
Agree(el) ==
  LET collapsed == \E i \in DOMAIN el.content : el.content[i] = "collapsed"
  IN  /\ collapsed <=> (\E i \in DOMAIN el.toggle : el.toggle[i] = "collapsed")
      /\ collapsed <=> el.text = "U+25B6"
      /\ ~collapsed <=> el.text = "U+25BC"

(* C31: after any sequence of one or more toggleSection calls on a section *)
(* its three indicators agree: the content has class 'collapsed' exactly    *)
(* when the toggle has class 'collapsed' and shows the right-pointing       *)
(* triangle (otherwise the down-pointing one); from such a state two        *)
(* consecutive toggleSection calls restore the state.                       *)
C31_IndicatorsAgree ==
  \A s \in SectionNames :
    /\ trail[s][Len(trail[s])] = Indicators(classList, textContent, s)
    /\ \A k \in 2..Len(trail[s]) :
         /\ Agree(trail[s][k])
         /\ k + 2 <= Len(trail[s]) => trail[s][k + 2] = trail[s][k]
         /\ k + 1 <= Len(trail[s]) => trail[s][k + 1] # trail[s][k]

\* a section loaded with indicators that disagree was toggled three times,
\* and another section was left alone
C31_Witness ==
  \E s, u \in SectionNames :
    /\ Len(trail[s]) = 4
    /\ ~Agree(trail[s][1])
    /\ trail[s][4] = trail[s][2]
    /\ Len(trail[u]) = 1

====
